---------------------------- MODULE Spec2Model ----------------------------
(***************************************************************************)
(* Model of @veily/llm-guard: the anonymize -> restore correlation         *)
(* protocol (guard.ts), its optional transit-encryption overlay            *)
(* (crypto.ts, key discovery and key cache) and the pooled transport       *)
(* (http.ts).  The remote service and the caller-supplied processing       *)
(* function are external: their answers are drawn from small sets.         *)
(***************************************************************************)
EXTENDS Integers, Sequences, FiniteSets, TLC

VARIABLES
    cyc,            \* logical cycle -> the call's position and captured values
    net,            \* logical cycle -> what the call put on the wire, in order
    keyCache,       \* guard.ts keyCache: credential -> {publicKey, keyId}
    transportPool,  \* http.ts transportPool: origin -> transport (0: no entry)
    transports,     \* every HttpsTransport constructed so far
    req,            \* http.ts: one getJSON/postJSON call, its request and promise
    rsa             \* crypto.ts: one encryption and the decryption of its result

vars == <<cyc, net, keyCache, transportPool, transports, req, rsa>>

\* the state of guard.ts and of the transport pool
guard == <<cyc, net, keyCache, transportPool, transports>>

(***************************************************************************)
(* Bounds                                                                  *)
(***************************************************************************)
NumCycles == 2
MaxRestores == 2

Cycles == 1..NumCycles

(***************************************************************************)
(* JavaScript values.  A string is a sequence of characters (a token may   *)
(* stand for several characters; " " is one blank).                        *)
(***************************************************************************)
NoCipher == [pt |-> <<>>, pub |-> 0, seed |-> 0]

JUndef == [t |-> "undefined", s |-> <<>>, c |-> NoCipher]
JNum == [t |-> "number", s |-> <<"123">>, c |-> NoCipher]
JStr(s) == [t |-> "string", s |-> s, c |-> NoCipher]
\* the base64 text of ciphertext c
JB64(c) == [t |-> "string", s |-> <<"base64">>, c |-> c]

\* !v of the values above: undefined and '' are falsy, 123 and other text truthy
Truthy(v) == \/ v.t = "number"
             \/ v.t = "string" /\ v.s # <<>>

RECURSIVE TrimLeft(_)
TrimLeft(s) == IF s # <<>> /\ Head(s) = " " THEN TrimLeft(Tail(s)) ELSE s

RECURSIVE TrimRight(_)
TrimRight(s) ==
    IF s # <<>> /\ s[Len(s)] = " " THEN TrimRight(SubSeq(s, 1, Len(s) - 1)) ELSE s

\* a comparison with '' that forgets to trim
TrimForgotten(s) == s

\* String.prototype.trim
Trim(s) == TrimRight(TrimLeft(s))

(***************************************************************************)
(* Key material.  A key text is what PEM's regular expressions look at:    *)
(* the BEGIN marker, the body and the END marker.  body >= 1 is the        *)
(* base64 of key pair number body, 0 is base64 text that is no key, -1     *)
(* holds characters outside base64.                                        *)
(***************************************************************************)
KUndef == [begin |-> "undefined", body |-> 0, end |-> "undefined"]
KEmpty == [begin |-> "", body |-> 0, end |-> ""]
KJunk == [begin |-> "text", body |-> -1, end |-> "text"]
Pem(marker, body) == [begin |-> marker, body |-> body, end |-> marker]

KTruthy(k) == k.begin \notin {"undefined", ""}

validatePublicKey(publicKey) ==
    /\ KTruthy(publicKey)
    /\ publicKey.begin = "PUBLIC KEY"
    /\ publicKey.body >= 0
    /\ publicKey.end = "PUBLIC KEY"

\* a check that takes any non-empty text for a private key
validatePrivateKeyAnyText(privateKey) == KTruthy(privateKey)

validatePrivateKey(privateKey) ==
    /\ KTruthy(privateKey)
    /\ privateKey.begin = "PRIVATE KEY"
    /\ privateKey.body >= 0
    /\ privateKey.end = "PRIVATE KEY"

(***************************************************************************)
(* RSA-OAEP.  A ciphertext records the plaintext, the key pair whose       *)
(* public half made it and the padding's random seed; pub = 0 is base64    *)
(* text that is no ciphertext of any key.                                  *)
(***************************************************************************)
ModulusBits == 2048
HashBits == 256
\* the longest message OAEP takes: k - 2 hLen - 2 bytes
MaxOaepBytes == (ModulusBits \div 8) - 2 * (HashBits \div 8) - 2

Cipher(pt, pub, seed) == [pt |-> pt, pub |-> pub, seed |-> seed]

\* an encryption that hands any non-empty key text to the cipher, which takes
\* a private key for its public half
encryptWithoutFormatCheck(plainText, publicKeyPem, seed) ==
    IF plainText.t # "string"
    THEN [ok |-> FALSE, err |-> "plainText must be a string", value |-> JUndef]
    ELSE IF ~KTruthy(publicKeyPem)
    THEN [ok |-> FALSE, err |-> "publicKey must be a non-empty string", value |-> JUndef]
    ELSE IF publicKeyPem.body < 1 \/ publicKeyPem.begin # publicKeyPem.end
            \/ Len(plainText.s) > MaxOaepBytes
    THEN [ok |-> FALSE, err |-> "Encryption failed", value |-> JUndef]
    ELSE [ok |-> TRUE, err |-> "", value |-> JB64(Cipher(plainText.s, publicKeyPem.body, seed))]

encryptWithPublicKey(plainText, publicKeyPem, seed) ==
    IF plainText.t # "string"
    THEN [ok |-> FALSE, err |-> "plainText must be a string", value |-> JUndef]
    ELSE IF ~KTruthy(publicKeyPem)
    THEN [ok |-> FALSE, err |-> "publicKey must be a non-empty string", value |-> JUndef]
    ELSE IF ~validatePublicKey(publicKeyPem)
    THEN [ok |-> FALSE, err |-> "Invalid public key format", value |-> JUndef]
    ELSE IF publicKeyPem.body < 1 \/ Len(plainText.s) > MaxOaepBytes
    THEN [ok |-> FALSE, err |-> "Encryption failed", value |-> JUndef]
    ELSE [ok |-> TRUE, err |-> "", value |-> JB64(Cipher(plainText.s, publicKeyPem.body, seed))]

\* a decryption without the padding's check: another key yields some text
decryptUnchecked(cipherText, privateKeyPem) ==
    IF cipherText.t # "string" \/ ~validatePrivateKey(privateKeyPem)
       \/ privateKeyPem.body < 1
    THEN [ok |-> FALSE, err |-> "Decryption failed", val |-> JUndef]
    ELSE IF cipherText.c.pub # privateKeyPem.body
    THEN [ok |-> TRUE, err |-> "", val |-> JStr(<<"garbled">>)]
    ELSE [ok |-> TRUE, err |-> "", val |-> JStr(cipherText.c.pt)]

decryptWithPrivateKey(cipherText, privateKeyPem) ==
    IF cipherText.t # "string"
    THEN [ok |-> FALSE, err |-> "cipherTextBase64 must be a string", val |-> JUndef]
    ELSE IF ~KTruthy(privateKeyPem)
    THEN [ok |-> FALSE, err |-> "privateKey must be a non-empty string", val |-> JUndef]
    ELSE IF ~validatePrivateKey(privateKeyPem)
    THEN [ok |-> FALSE, err |-> "Invalid private key format", val |-> JUndef]
    ELSE IF privateKeyPem.body < 1 \/ cipherText.c.pub # privateKeyPem.body
    THEN [ok |-> FALSE, err |-> "Decryption failed", val |-> JUndef]
    ELSE [ok |-> TRUE, err |-> "", val |-> JStr(cipherText.c.pt)]

(***************************************************************************)
(* Wire fields: a prompt or an output is a string or an EncryptableField   *)
(* {value, encrypted, keyId}; a response may carry any object.             *)
(***************************************************************************)
NoField ==
    [hasEncrypted |-> FALSE, encrypted |-> FALSE, hasValue |-> FALSE,
     value |-> JUndef, hasKeyId |-> FALSE, keyId |-> JUndef]

WUndef == [t |-> "undefined", s |-> <<>>, c |-> NoCipher, f |-> NoField]
WScalar(v) == [t |-> v.t, s |-> v.s, c |-> v.c, f |-> NoField]
WObj(f) == [t |-> "object", s |-> <<>>, c |-> NoCipher, f |-> f]

EncryptableField(value, keyId) ==
    WObj([hasEncrypted |-> TRUE, encrypted |-> TRUE, hasValue |-> TRUE,
          value |-> value, hasKeyId |-> TRUE, keyId |-> keyId])

createEncryptableField(encryptedValue, keyId) ==
    IF ~Truthy(keyId) \/ keyId.t # "string" \/ Trim(keyId.s) = <<>>
    THEN [ok |-> FALSE, err |-> "keyId is required and must be a non-empty string",
          field |-> WUndef]
    ELSE IF ~Truthy(encryptedValue) \/ encryptedValue.t # "string"
    THEN [ok |-> FALSE, err |-> "encryptedValue must be a non-empty string",
          field |-> WUndef]
    ELSE [ok |-> TRUE, err |-> "",
          field |-> EncryptableField(encryptedValue, JStr(Trim(keyId.s)))]

\* String(x) of an output that is not a string
ObjectObject == <<"[object Object]">>

(***************************************************************************)
(* guard.ts: configuration, key discovery and the key cache                *)
(***************************************************************************)
\* A header map: the entries of a JavaScript object, in insertion order.
NoHeaders == <<>>
Header(name, value) == [name |-> name, value |-> value]

\* A GuardConfig as a caller writes it: no publicKey, keyId or baseURL yet,
\* no extra headers.
GuardConfig(apiKey, privateKey) ==
    [apiKey |-> apiKey, privateKey |-> privateKey,
     publicKey |-> KUndef, keyId |-> JUndef, baseURL |-> "", headers |-> NoHeaders]

getBaseURL == "https://api.veily.dev"

DiscoveryPath == "/v1/transit-crypto/inbound-public-key"

getPaths(cfg) == [anonymize |-> "/v1/anonymize", restore |-> "/v1/restore"]

NoEntry == [has |-> FALSE, publicKey |-> KUndef, keyId |-> JUndef]

\* a discovery that takes whatever the endpoint answers
DiscoveryErrorNone(response) == ""

\* fetchInboundPublicKey, lines 261-271: what it makes of the discovery response
DiscoveryError(response) ==
    IF ~KTruthy(response.publicKey) \/ ~Truthy(response.keyId)
    THEN "Invalid response from /v1/transit-crypto/inbound-public-key"
    ELSE IF ~validatePublicKey(response.publicKey)
    THEN "Invalid public key format received from API"
    ELSE ""

\* a key resolution that does not look into the cache
validateConfigNoCache(cfg, cache) ==
    IF ~Truthy(cfg.apiKey) \/ cfg.apiKey.t # "string" \/ Trim(cfg.apiKey.s) = <<>>
    THEN [st |-> "error", err |-> "cfg.apiKey is required", v |-> cfg]
    ELSE IF KTruthy(cfg.privateKey)
    THEN IF ~validatePrivateKey(cfg.privateKey)
         THEN [st |-> "error", err |-> "Invalid private key format", v |-> cfg]
         ELSE [st |-> "fetch", err |-> "", v |-> [cfg EXCEPT !.baseURL = getBaseURL]]
    ELSE [st |-> "ok", err |-> "", v |-> [cfg EXCEPT !.baseURL = getBaseURL]]

\* validateConfig up to its first suspension: an error, the validated
\* configuration, or a key discovery to wait for.
validateConfig(cfg, cache) ==
    IF ~Truthy(cfg.apiKey)
    THEN [st |-> "error", err |-> "cfg.apiKey is required", v |-> cfg]
    ELSE IF cfg.apiKey.t # "string" \/ Trim(cfg.apiKey.s) = <<>>
    THEN [st |-> "error", err |-> "cfg.apiKey is required", v |-> cfg]
    ELSE IF KTruthy(cfg.privateKey)
    THEN IF ~validatePrivateKey(cfg.privateKey)
         THEN [st |-> "error", err |-> "Invalid private key format", v |-> cfg]
         ELSE IF cache[cfg.apiKey.s].has
         THEN [st |-> "ok", err |-> "",
               v |-> [cfg EXCEPT !.baseURL = getBaseURL,
                                 !.publicKey = cache[cfg.apiKey.s].publicKey,
                                 !.keyId = cache[cfg.apiKey.s].keyId]]
         ELSE [st |-> "fetch", err |-> "", v |-> [cfg EXCEPT !.baseURL = getBaseURL]]
    ELSE [st |-> "ok", err |-> "", v |-> [cfg EXCEPT !.baseURL = getBaseURL]]

encryptPromptIfNeeded(prompt, cfg, seed) ==
    IF ~KTruthy(cfg.publicKey) \/ ~Truthy(cfg.keyId)
    THEN [ok |-> TRUE, err |-> "", field |-> WScalar(prompt)]
    ELSE LET e == encryptWithPublicKey(prompt, cfg.publicKey, seed)
         IN  IF ~e.ok
             THEN [ok |-> FALSE, err |-> e.err, field |-> WUndef]
             ELSE createEncryptableField(e.value, cfg.keyId)

\* a restore that always asks for an encrypted response
shouldEncryptResponseAlways(validatedCfg) == TRUE

\* a restore that never asks for an encrypted response
shouldEncryptResponseNever(validatedCfg) == FALSE

\* anonymize, line 434
shouldEncryptResponse(validatedCfg) ==
    KTruthy(validatedCfg.publicKey) /\ Truthy(validatedCfg.keyId)

\* a response check that forgets the correlation token
AnonymizeResponseInvalidNoToken(response) == ~Truthy(response.safePrompt)

\* an anonymize that does not look at its response
AnonymizeResponseUnchecked(response) == FALSE

\* anonymize, line 422
AnonymizeResponseInvalid(response) ==
    ~Truthy(response.safePrompt) \/ ~Truthy(response.mappingId)

\* a restore that reads the token from a place every cycle writes to: the
\* token of the latest cycle that holds one
RestoreRequestBodyShared(response, llmOutput, validatedCfg) ==
    LET holders == {c \in Cycles : Truthy(cyc[c].response.mappingId)}
        last == CHOOSE c \in holders : \A d \in holders : d <= c
    IN  [mappingId |-> IF holders = {} THEN response.mappingId
                       ELSE cyc[last].response.mappingId,
         output |-> WScalar(llmOutput),
         encryptResponse |-> shouldEncryptResponse(validatedCfg)]

\* a restore that sends the safe text back instead of the processed text
RestoreRequestBodyEcho(response, llmOutput, validatedCfg) ==
    [mappingId |-> response.mappingId,
     output |-> WScalar(response.safePrompt),
     encryptResponse |-> shouldEncryptResponse(validatedCfg)]

\* the restore closure, lines 438-443
RestoreRequestBody(response, llmOutput, validatedCfg) ==
    [mappingId |-> response.mappingId,
     output |-> WScalar(llmOutput),
     encryptResponse |-> shouldEncryptResponse(validatedCfg)]

\* the restore of the client before the overlay: guard.ts before crypto.ts
\* existed, restore lines 87-91
RestoreResultPreOverlay(restoreResponse) ==
    IF restoreResponse.output.t = "undefined"
       \/ (restoreResponse.output.t = "string" /\ restoreResponse.output.s = <<>>)
    THEN [ok |-> FALSE, err |-> "Invalid response from /restore", val |-> JUndef]
    ELSE [ok |-> TRUE, err |-> "",
          val |-> [t |-> restoreResponse.output.t, s |-> restoreResponse.output.s,
                   c |-> restoreResponse.output.c]]

\* the restore closure, lines 451-459
IsEncryptedResponse(restoreResponse) ==
    /\ restoreResponse.encrypted
    /\ restoreResponse.output.t = "object"
    /\ restoreResponse.output.f.hasEncrypted
    /\ restoreResponse.output.f.encrypted
    /\ restoreResponse.output.f.hasValue
    /\ restoreResponse.output.f.hasKeyId

\* the restore closure, lines 446-484: what it returns for a response
RestoreResult(restoreResponse, validatedCfg) ==
    IF restoreResponse.output.t = "undefined"
       \/ (restoreResponse.output.t = "string" /\ restoreResponse.output.s = <<>>)
    THEN [ok |-> FALSE, err |-> "Invalid response from /restore", val |-> JUndef]
    ELSE IF IsEncryptedResponse(restoreResponse)
    THEN IF ~KTruthy(validatedCfg.privateKey)
         THEN [ok |-> FALSE, val |-> JUndef,
               err |-> "Received encrypted response but no privateKey provided in config"]
         ELSE IF restoreResponse.output.f.keyId # validatedCfg.keyId
         THEN [ok |-> FALSE, err |-> "Key ID mismatch", val |-> JUndef]
         ELSE decryptWithPrivateKey(restoreResponse.output.f.value,
                                    validatedCfg.privateKey)
    ELSE IF restoreResponse.output.t = "string"
    THEN [ok |-> TRUE, err |-> "",
          val |-> [t |-> "string", s |-> restoreResponse.output.s,
                   c |-> restoreResponse.output.c]]
    ELSE [ok |-> TRUE, err |-> "", val |-> JStr(ObjectObject)]

(***************************************************************************)
(* http.ts: the transport and the pool                                     *)
(***************************************************************************)
\* getBaseURL, line 299: the production origin, or the one VEILY_CORE_URL names
CoreURLOverride == "https://core.test"

Origins == {getBaseURL, CoreURLOverride}

\* new URL(baseURL).origin
Origin(baseURL) == baseURL

\* { ...base, ...extra }: an entry of extra takes the place of the entry of
\* base that has its key, or is added after the entries of base
RECURSIVE Spread(_, _)
Spread(base, extra) ==
    IF extra = <<>> THEN base
    ELSE LET e == Head(extra)
             same == {i \in 1..Len(base) : base[i].name = e.name}
         IN  Spread(IF same = {} THEN Append(base, e)
                    ELSE [i \in 1..Len(base) |-> IF i \in same THEN e ELSE base[i]],
                    Tail(extra))

\* constructor, lines 58-62: the headers every request of the transport carries
HttpsTransport(cfg) ==
    [origin |-> Origin(cfg.baseURL),
     headers |-> Spread(Spread(<<Header("Content-Type", JStr(<<"application/json">>))>>,
                               IF Truthy(cfg.apiKey)
                               THEN <<Header("x-api-key", cfg.apiKey)>> ELSE <<>>),
                        cfg.headers),
     closed |-> FALSE]

\* the name a header of the options goes out under: header names are not
\* case-sensitive, the request keeps one value per lower-case name
LowerCase(name) ==
    IF name = "Content-Type" THEN "content-type"
    ELSE IF name = "X-Api-Key" THEN "x-api-key"
    ELSE name

\* the value a request of the transport carries for the header of lower-case
\* name: that of the last entry of the name (lines 75, 137-140)
HeaderOf(transport, name) ==
    LET named == {i \in 1..Len(transport.headers) :
                     LowerCase(transport.headers[i].name) = name}
    IN  IF named = {} THEN JUndef
        ELSE transport.headers[CHOOSE i \in named : \A j \in named : j <= i].value

\* a getTransport that makes a transport at every call
getTransportFresh(cfg, pool, trs) ==
    [id |-> Len(trs) + 1,
     pool |-> [pool EXCEPT ![Origin(cfg.baseURL)] = Len(trs) + 1],
     transports |-> Append(trs, HttpsTransport(cfg))]

\* getTransport: the pooled transport of cfg's origin, created on first use
getTransport(cfg, pool, trs) ==
    IF pool[Origin(cfg.baseURL)] # 0
    THEN [id |-> pool[Origin(cfg.baseURL)], pool |-> pool, transports |-> trs]
    ELSE [id |-> Len(trs) + 1,
          pool |-> [pool EXCEPT ![Origin(cfg.baseURL)] = Len(trs) + 1],
          transports |-> Append(trs, HttpsTransport(cfg))]

(***************************************************************************)
(* http.ts: one getJSON/postJSON call.  The promise, the ClientRequest and *)
(* the handlers the call registers on it: the response callback with its   *)
(* 'data' and 'end' listeners, 'error' and 'timeout'.  A body is a text, a *)
(* sequence of tokens that arrives token by token.                         *)
(***************************************************************************)
NoValue == [kind |-> "none", text |-> <<>>, message |-> JUndef, error |-> JUndef]
\* a parsed JSON object, of which the members message and error are looked at
JObject(message, error) ==
    [kind |-> "object", text |-> <<>>, message |-> message, error |-> error]
\* a body returned as the text it is
RawText(text) == [kind |-> "text", text |-> text, message |-> JUndef, error |-> JUndef]

\* the texts that are JSON documents, and what they parse to
JsonDocuments ==
    {[text |-> <<"{", "}">>, value |-> JObject(JUndef, JUndef)],
     [text |-> <<"{", "message:quota", "}">>, value |-> JObject(JStr(<<"quota">>), JUndef)],
     [text |-> <<"{", "error:denied", "}">>, value |-> JObject(JUndef, JStr(<<"denied">>))],
     [text |-> <<"{", "message:", "}">>, value |-> JObject(JStr(<<>>), JUndef)]}

\* JSON.parse: the value of a document, or a SyntaxError
JSONParse(text) ==
    IF \E d \in JsonDocuments : d.text = text
    THEN [ok |-> TRUE, value |-> (CHOOSE d \in JsonDocuments : d.text = text).value]
    ELSE [ok |-> FALSE, value |-> NoValue]

NoRequest ==
    [method |-> "none", apiKey |-> <<>>, body |-> <<>>,
     phase |-> "idle", statusCode |-> 0, toCome |-> <<>>,
     chunks |-> <<>>, hangUp |-> FALSE, promise |-> "none", value |-> NoValue,
     error |-> <<>>, settled |-> 0]

\* resolve of the promise: only the first resolve or reject settles it
resolve(q, value) ==
    IF q.promise # "pending" THEN q
    ELSE [q EXCEPT !.promise = "resolved", !.value = value, !.settled = @ + 1]

\* reject of the promise
reject(q, error) ==
    IF q.promise # "pending" THEN q
    ELSE [q EXCEPT !.promise = "rejected", !.error = error, !.settled = @ + 1]

\* lines 92-98, 157-163: the message of the error for a status >= 400
ErrorMsg(statusCode, body) ==
    LET errBody == JSONParse(body)
        default == <<"HTTP ", ToString(statusCode)>>
    IN  IF errBody.ok
        THEN IF Truthy(errBody.value.message) THEN errBody.value.message.s
             ELSE IF Truthy(errBody.value.error) THEN errBody.value.error.s
             ELSE default
        ELSE IF body # <<>> THEN body ELSE default

\* an 'end' handler that takes every complete response for a success
EndOfResponseAnyStatus(q) ==
    LET parsed == JSONParse(q.chunks)
    IN  resolve(q, IF parsed.ok THEN parsed.value ELSE RawText(q.chunks))

\* the 'end' handler of the response, lines 86-110 and 151-175
EndOfResponse(q) ==
    IF q.statusCode >= 400
    THEN reject(q, <<"HTTP error ", ToString(q.statusCode), ": ">>
                       \o ErrorMsg(q.statusCode, q.chunks))
    ELSE LET parsed == JSONParse(q.chunks)
         IN  resolve(q, IF parsed.ok THEN parsed.value ELSE RawText(q.chunks))

\* what the remote end may answer
StatusCodes == {200, 302, 399, 400, 404, 500}

HttpBodies ==
    {<<>>, <<"<html>", "stack">>, <<"{", "message:quota">>}
    \cup {d.text : d \in JsonDocuments}

\* a remote end (the service, or a gateway before it) may quote the request
\* it refuses in its answer: the credential of its header, or its body
RemoteEchoes(q) ==
    {<<"refused: ">> \o q.apiKey}
    \cup (IF q.body # <<>> THEN {<<"refused: ">> \o q.body} ELSE {})

\* getJSON and postJSON up to req.end(): lines 69-122 and 130-188; the
\* request goes out with the credential in its headers and, for POST, the body
SendRequest(method, apiKey, body) ==
    /\ req.phase = "idle"
    /\ req' = [NoRequest EXCEPT !.method = method, !.apiKey = apiKey,
                                !.body = IF method = "POST" THEN body ELSE <<>>,
                                !.phase = "sent", !.promise = "pending"]
    /\ UNCHANGED <<guard, rsa>>

\* the response callback, lines 79-80 and 144-145: status line and headers are in
OnResponse(statusCode, body) ==
    /\ req.phase = "sent"
    /\ req' = [req EXCEPT !.phase = "receiving", !.statusCode = statusCode,
                          !.toCome = body]
    /\ UNCHANGED <<guard, rsa>>

\* res.on("data"), lines 82-84 and 147-149
OnData ==
    /\ req.phase = "receiving"
    /\ req.toCome # <<>>
    /\ req' = [req EXCEPT !.chunks = Append(@, Head(req.toCome)),
                          !.toCome = Tail(@)]
    /\ UNCHANGED <<guard, rsa>>

\* res.on("end"): the whole body has arrived
OnEnd ==
    /\ req.phase = "receiving"
    /\ req.toCome = <<>>
    /\ req' = [EndOfResponse(req) EXCEPT !.phase = "ended"]
    /\ UNCHANGED <<guard, rsa>>

\* req.on("error"), lines 113-115 and 178-180: the connection fails before a
\* response, or the request was destroyed before one
OnError(err) ==
    /\ \/ req.phase = "sent"
       \/ req.phase = "destroyed" /\ req.hangUp
    /\ req' = [reject(req, <<err>>) EXCEPT !.phase = "closed", !.hangUp = FALSE]
    /\ UNCHANGED <<guard, rsa>>

\* req.on("timeout"), lines 117-120 and 182-185: the socket was idle for
\* timeoutMs; destroying the request before a response raises 'error' after
OnTimeout ==
    /\ req.phase \in {"sent", "receiving"}
    /\ req' = [reject(req, <<"HTTP request timeout">>) EXCEPT
                   !.phase = "destroyed", !.hangUp = (req.phase = "sent")]
    /\ UNCHANGED <<guard, rsa>>

\* the connection closes after the response has begun and before its end:
\* the response is aborted, which no listener of lines 79-111, 144-176 hears
ResponseAborted ==
    /\ req.phase = "receiving"
    /\ req' = [req EXCEPT !.phase = "closed"]
    /\ UNCHANGED <<guard, rsa>>

(***************************************************************************)
(* crypto.ts: an encryption and the decryption of what it returned         *)
(***************************************************************************)
NoEncryption == [ok |-> FALSE, err |-> "", value |-> JUndef]
NoDecryption == [ok |-> FALSE, err |-> "", val |-> JUndef]

NoRsa ==
    [stage |-> "idle", plainText |-> JUndef, publicKey |-> KUndef,
     privateKey |-> KUndef, encrypted |-> NoEncryption, decrypted |-> NoDecryption]

\* a text of n one-byte characters
TextOfBytes(n) == [i \in 1..n |-> "x"]

PlainTexts ==
    {JNum, JStr(<<>>), JStr(<<"pii">>), JStr(<<"pii", " ", "pii">>),
     JStr(TextOfBytes(MaxOaepBytes)),
     JStr(TextOfBytes(MaxOaepBytes + 1))}

PaddingSeeds == {1, 2}

KeyPairs == {1, 2}

Encrypt(plainText, publicKeyPem, seed) ==
    /\ rsa.stage = "idle"
    /\ rsa' = [rsa EXCEPT !.stage = "encrypted", !.plainText = plainText,
                          !.publicKey = publicKeyPem,
                          !.encrypted = encryptWithPublicKey(plainText, publicKeyPem, seed)]
    /\ UNCHANGED <<guard, req>>

Decrypt(privateKeyPem) ==
    /\ rsa.stage = "encrypted"
    /\ rsa.encrypted.ok
    /\ rsa' = [rsa EXCEPT !.stage = "decrypted", !.privateKey = privateKeyPem,
                          !.decrypted = decryptWithPrivateKey(rsa.encrypted.value,
                                                              privateKeyPem)]
    /\ UNCHANGED <<guard, req>>

(***************************************************************************)
(* A remote service that reverts its own substitutions, as the test        *)
(* double of the endpoints does: "pii" is replaced by the marker "safe1"   *)
(* and the marker is replaced back.                                        *)
(***************************************************************************)
ServiceAnonymize(s) == [i \in 1..Len(s) |-> IF s[i] = "pii" THEN "safe1" ELSE s[i]]

ServiceRestore(s) == [i \in 1..Len(s) |-> IF s[i] = "safe1" THEN "pii" ELSE s[i]]

(***************************************************************************)
(* The inputs of the calls and the answers of the remote service           *)
(***************************************************************************)
Credentials == {<<"A">>, <<"B">>}

ApiKeys == {JUndef, JNum, JStr(<<>>), JStr(<<" ">>)} \cup {JStr(k) : k \in Credentials}

PrivateKeys ==
    {KUndef, KEmpty, KJunk, Pem("PUBLIC KEY", 1), Pem("PRIVATE KEY", 1)}

Configs == {GuardConfig(a, k) : a \in ApiKeys, k \in PrivateKeys}

\* the PEM categories a key text may be of, by its markers
PemMarkers == {"PUBLIC KEY", "PRIVATE KEY", "RSA PRIVATE KEY"}

\* key texts of every category, with matching and with mixed markers
KeyTexts ==
    {KUndef, KEmpty, KJunk}
    \cup {[begin |-> b, body |-> n, end |-> e] :
             b \in PemMarkers, e \in PemMarkers, n \in {-1, 0, 1}}

Prompts == {JNum, JStr(<<>>), JStr(<<"pii">>)}

Seeds == {1}

KeyIds == {JUndef, JStr(<<" ">>), JStr(<<"k1">>), JStr(<<" ", "k1">>), JStr(<<"k2">>)}

PublicKeys == {KUndef, KJunk, Pem("PRIVATE KEY", 1), Pem("PUBLIC KEY", 1), Pem("PUBLIC KEY", 2)}

\* a transport call rejects (timeout, connection error, status >= 400) or
\* resolves with the parsed body
DiscoveryResponses ==
    {[rejected |-> TRUE, publicKey |-> KUndef, keyId |-> JUndef]}
    \cup {[rejected |-> FALSE, publicKey |-> p, keyId |-> k] :
            p \in PublicKeys, k \in KeyIds}

AnonymizeResponses ==
    {[rejected |-> TRUE, safePrompt |-> JUndef, mappingId |-> JUndef]}
    \cup {[rejected |-> FALSE, safePrompt |-> s, mappingId |-> m] :
            s \in {JUndef, JStr(<<>>), JStr(<<"safe1">>), JStr(<<"safe2">>)},
            m \in {JUndef, JStr(<<"map1">>), JStr(<<"map2">>)}}

\* what anonymize reads (response?.safePrompt, response?.mappingId) of a
\* value the transport resolved with that is no anonymize answer: a body that
\* is a text, not JSON (http.ts lines 171-173), or an object without the members
AnonymizeWire(value) == [rejected |-> FALSE, safePrompt |-> JUndef, mappingId |-> JUndef]

NonObjectAnswers ==
    {AnonymizeWire(RawText(<<"<html>", "stack">>)), AnonymizeWire(RawText(<<>>))}

\* what the caller's processing function settles with
CallerOutcomes ==
    {[rejected |-> TRUE, value |-> JUndef]}
    \cup {[rejected |-> FALSE, value |-> v] :
            v \in {JNum, JStr(<<>>), JStr(<<"out1">>), JStr(<<"out2">>), JStr(<<"safe1">>)}}

ResponseFields ==
    {[hasEncrypted |-> e, encrypted |-> e, hasValue |-> TRUE, value |-> v,
      hasKeyId |-> k # JUndef, keyId |-> k] :
        e \in BOOLEAN,
        v \in {JB64(Cipher(<<"orig">>, 1, 1)), JB64(Cipher(<<"orig">>, 2, 1)), JStr(<<"junk">>)},
        k \in {JUndef, JStr(<<"k1">>), JStr(<<"k2">>)}}

RestoreOutputs ==
    {WUndef, WScalar(JStr(<<>>)), WScalar(JStr(<<"orig">>)), WScalar(JStr(<<"pii">>)),
     WScalar(JB64(Cipher(<<"orig">>, 1, 1)))}
    \cup {WObj(f) : f \in ResponseFields}

RestoreResponses ==
    {[rejected |-> TRUE, encrypted |-> FALSE, keyId |-> JUndef, output |-> WUndef]}
    \cup {[rejected |-> FALSE, encrypted |-> e, keyId |-> JUndef, output |-> o] :
            e \in BOOLEAN, o \in RestoreOutputs}
    \cup {[rejected |-> FALSE, encrypted |-> TRUE, keyId |-> JStr(<<"k2">>),
           output |-> EncryptableField(JB64(Cipher(<<"orig">>, 1, 1)), JStr(<<"k1">>))]}

(***************************************************************************)
(* The calls.  A call runs without interruption from one suspension (a     *)
(* transport call, the caller's function) to the next.                     *)
(***************************************************************************)
NoResult == [st |-> "none", err |-> "", val |-> JUndef]

\* AnonymizeOptions: the ttl in seconds, or none
TtlUndef == [t |-> "undefined", n |-> 0]
Ttl(n) == [t |-> "number", n |-> n]
NoOptions == [ttl |-> TtlUndef]
AnonymizeOptions(ttl) == [ttl |-> ttl]
Ok(val) == [st |-> "ok", err |-> "", val |-> val]
\* a failure caught and answered with a substitute text
ErrorSwallowed(err) == Ok(JStr(<<"substitute">>))

Error(err) == [st |-> "error", err |-> err, val |-> JUndef]

NoResponse == [rejected |-> FALSE, safePrompt |-> JUndef, mappingId |-> JUndef]
NoRestoreResponse ==
    [rejected |-> FALSE, encrypted |-> FALSE, keyId |-> JUndef, output |-> WUndef]

Idle ==
    [pc |-> "idle", kind |-> "none", stage |-> "none", prompt |-> JUndef,
     caller |-> FALSE, options |-> NoOptions, cfg |-> GuardConfig(JUndef, KUndef),
     session |-> FALSE, sessionCfg |-> GuardConfig(JUndef, KUndef),
     validatedCfg |-> GuardConfig(JUndef, KUndef), transport |-> 0,
     response |-> NoResponse, llmOutput |-> JUndef,
     restoreResponse |-> NoRestoreResponse, restores |-> 0,
     result |-> NoResult, restored |-> NoResult]

NoTraffic == [gets |-> <<>>, anonymize |-> <<>>, restore |-> <<>>,
              calls |-> <<>>, order |-> <<>>]

Init ==
    /\ cyc = [c \in Cycles |-> Idle]
    /\ net = [c \in Cycles |-> NoTraffic]
    /\ keyCache = [k \in Credentials |-> NoEntry]
    /\ transportPool = [o \in Origins |-> 0]
    /\ transports = <<>>
    /\ req = NoRequest
    /\ rsa = NoRsa

\* What a function does once its validateConfig has returned v: createSession
\* returns the session, wrap calls anonymize (line 530), anonymize takes the
\* transport, encrypts the prompt and is ready to post (lines 400-419).
RECURSIVE Resume(_, _, _, _, _)
Resume(stage, v, prompt, cache, seed) ==
    IF stage = "createSession"
    THEN [st |-> "session", err |-> "", stage |-> stage, v |-> v, field |-> WUndef]
    ELSE IF stage = "wrap"
    THEN LET vc == validateConfig(v, cache)
         IN  IF vc.st = "error"
             THEN [st |-> "error", err |-> vc.err, stage |-> "anonymize", v |-> v,
                   field |-> WUndef]
             ELSE IF vc.st = "fetch"
             THEN [st |-> "fetch", err |-> "", stage |-> "anonymize", v |-> vc.v,
                   field |-> WUndef]
             ELSE Resume("anonymize", vc.v, prompt, cache, seed)
    ELSE LET e == encryptPromptIfNeeded(prompt, v, seed)
         IN  IF ~e.ok
             THEN [st |-> "encryptError", err |-> e.err, stage |-> stage, v |-> v,
                   field |-> WUndef]
             ELSE [st |-> "post", err |-> "", stage |-> stage, v |-> v,
                   field |-> e.field]

\* A call of kind (anonymize, wrap, createSession) from its first line to its
\* first suspension.
Enter(kind, prompt, caller, cfg, cache, seed) ==
    IF kind # "createSession" /\ prompt.t # "string"
    THEN [st |-> "error", err |-> "prompt must be a string", stage |-> kind,
          v |-> cfg, field |-> WUndef]
    ELSE IF kind = "wrap" /\ ~caller
    THEN [st |-> "error", err |-> "caller must be a function", stage |-> kind,
          v |-> cfg, field |-> WUndef]
    ELSE LET vc == validateConfig(cfg, cache)
         IN  IF vc.st = "error"
             THEN [st |-> "error", err |-> vc.err, stage |-> kind, v |-> cfg,
                   field |-> WUndef]
             ELSE IF vc.st = "fetch"
             THEN [st |-> "fetch", err |-> "", stage |-> kind, v |-> vc.v,
                   field |-> WUndef]
             ELSE Resume(kind, vc.v, prompt, cache, seed)

\* a request body that takes a ttl of 0 for no ttl
AnonymizeRequestBodyTruthyTtl(field, options) ==
    [prompt |-> field,
     ttl |-> IF options.ttl # TtlUndef /\ options.ttl.n # 0 THEN options.ttl
             ELSE TtlUndef]

\* a request body that leaves the ttl out
AnonymizeRequestBodyNoTtl(field, options) == [prompt |-> field, ttl |-> TtlUndef]

\* The anonymize request body, lines 408-415: the ttl goes in when one is given
AnonymizeRequestBody(field, options) ==
    [prompt |-> field,
     ttl |-> IF options.ttl # TtlUndef THEN options.ttl ELSE TtlUndef]

\* The step that ends in outcome o for cycle c whose record is r.
Settle(c, r, o) ==
    IF o.st = "error"
    THEN /\ cyc' = [cyc EXCEPT ![c] = [r EXCEPT !.pc = "done", !.stage = o.stage,
                                               !.result = Error(o.err)]]
         /\ UNCHANGED <<net, transportPool, transports>>
    ELSE IF o.st = "session"
    THEN /\ cyc' = [cyc EXCEPT ![c] = [r EXCEPT !.pc = "done", !.stage = o.stage,
                                               !.validatedCfg = o.v,
                                               !.result = Ok(JUndef)]]
         /\ UNCHANGED <<net, transportPool, transports>>
    ELSE LET g == getTransport(o.v, transportPool, transports)
         IN  /\ transportPool' = g.pool
             /\ transports' = g.transports
             /\ IF o.st = "encryptError"
                THEN \* anonymize line 402 has taken the transport, line 406 throws
                     /\ cyc' = [cyc EXCEPT ![c] =
                                  [r EXCEPT !.pc = "done", !.stage = o.stage,
                                            !.validatedCfg = o.v, !.transport = g.id,
                                            !.result = Error(o.err)]]
                     /\ UNCHANGED net
                ELSE IF o.st = "fetch"
                THEN /\ cyc' = [cyc EXCEPT ![c] =
                                  [r EXCEPT !.pc = "awaitKey", !.stage = o.stage,
                                            !.validatedCfg = o.v]]
                     /\ net' = [net EXCEPT
                                  ![c].gets = Append(@, [transport |-> g.id,
                                                         path |-> DiscoveryPath]),
                                  ![c].order = Append(@, "GET key")]
                ELSE /\ cyc' = [cyc EXCEPT ![c] =
                                  [r EXCEPT !.pc = "awaitAnonymize", !.stage = o.stage,
                                            !.validatedCfg = o.v, !.transport = g.id]]
                     /\ net' = [net EXCEPT
                                  ![c].anonymize =
                                      Append(@, [transport |-> g.id,
                                                 path |-> getPaths(o.v).anonymize,
                                                 body |-> AnonymizeRequestBody(o.field,
                                                                              r.options)]),
                                  ![c].order = Append(@, "POST anonymize")]

\* cycles are taken into use in order
CanStart(c) == cyc[c].pc = "idle" /\ (IF c = 1 THEN TRUE ELSE cyc[c - 1].pc # "idle")

Started(c, kind, prompt, caller, cfg) ==
    [Idle EXCEPT !.kind = kind, !.prompt = prompt, !.caller = caller, !.cfg = cfg]

\* anonymize(prompt, cfg, options)
CallAnonymize(c, prompt, cfg, options, seed) ==
    /\ CanStart(c)
    /\ Settle(c, [Started(c, "anonymize", prompt, FALSE, cfg) EXCEPT !.options = options],
              Enter("anonymize", prompt, FALSE, cfg, keyCache, seed))
    /\ UNCHANGED <<keyCache, req, rsa>>

\* wrap(prompt, caller, cfg, options)
CallWrap(c, prompt, caller, cfg, options, seed) ==
    /\ CanStart(c)
    /\ Settle(c, [Started(c, "wrap", prompt, caller, cfg) EXCEPT !.options = options],
              Enter("wrap", prompt, caller, cfg, keyCache, seed))
    /\ UNCHANGED <<keyCache, req, rsa>>

CallCreateSession(c, cfg) ==
    /\ CanStart(c)
    /\ Settle(c, Started(c, "createSession", JUndef, FALSE, cfg),
              Enter("createSession", JUndef, FALSE, cfg, keyCache, 1))
    /\ UNCHANGED <<keyCache, req, rsa>>

\* a session that binds the configuration without its private key
SessionConfigNoKey(r) == [r.validatedCfg EXCEPT !.privateKey = KUndef]

\* createSession, lines 556, 567 and 574: the configuration the operations of
\* the session returned to the call of record r hand to wrap and anonymize
SessionConfig(r) == r.validatedCfg

\* createSession has returned its session to the call of cycle c
HasSession(c) ==
    cyc[c].kind = "createSession" /\ cyc[c].pc = "done" /\ cyc[c].result.st = "ok"

\* session.protect(prompt, caller, options), lines 562-568
SessionProtect(c, prompt, caller, options, seed) ==
    /\ HasSession(c)
    /\ Settle(c, [Started(c, "wrap", prompt, caller, SessionConfig(cyc[c])) EXCEPT
                     !.options = options, !.session = TRUE, !.sessionCfg = cyc[c].cfg],
              Enter("wrap", prompt, caller, SessionConfig(cyc[c]), keyCache, seed))
    /\ UNCHANGED <<keyCache, req, rsa>>

\* session.anonymize(prompt, options), lines 573-575
SessionAnonymize(c, prompt, options, seed) ==
    /\ HasSession(c)
    /\ Settle(c, [Started(c, "anonymize", prompt, FALSE, SessionConfig(cyc[c])) EXCEPT
                     !.options = options, !.session = TRUE, !.sessionCfg = cyc[c].cfg],
              Enter("anonymize", prompt, FALSE, SessionConfig(cyc[c]), keyCache, seed))
    /\ UNCHANGED <<keyCache, req, rsa>>

\* the discovery GET of cycle c settles: fetchInboundPublicKey lines 261-280,
\* then validateConfig lines 332-337 and its caller
KeyResponse(c, d, seed) ==
    /\ cyc[c].pc = "awaitKey"
    /\ UNCHANGED <<req, rsa>>
    /\ IF d.rejected
       THEN /\ Settle(c, cyc[c], [st |-> "error", err |-> "transport", v |-> cyc[c].validatedCfg,
                                   stage |-> cyc[c].stage, field |-> WUndef])
            /\ UNCHANGED keyCache
       ELSE IF DiscoveryError(d) # ""
       THEN /\ Settle(c, cyc[c], [st |-> "error", err |-> DiscoveryError(d),
                                   v |-> cyc[c].validatedCfg,
                                   stage |-> cyc[c].stage, field |-> WUndef])
            /\ UNCHANGED keyCache
       ELSE /\ keyCache' = [keyCache EXCEPT ![cyc[c].validatedCfg.apiKey.s] =
                              [has |-> TRUE, publicKey |-> d.publicKey, keyId |-> d.keyId]]
            /\ Settle(c, cyc[c],
                      Resume(cyc[c].stage,
                             [cyc[c].validatedCfg EXCEPT !.publicKey = d.publicKey,
                                                         !.keyId = d.keyId],
                             cyc[c].prompt, keyCache', seed))

\* a capability that remembers it was used and refuses a second invocation
RestoreOnce(c, r, llmOutput) ==
    /\ cyc' = [cyc EXCEPT ![c] =
                 [r EXCEPT !.pc = IF r.restores > 0 \/ r.kind = "wrap" THEN "done"
                                  ELSE "awaitRestore",
                           !.llmOutput = llmOutput,
                           !.restores = @ + 1,
                           !.restoreResponse = NoRestoreResponse,
                           !.restored = IF r.restores > 0 THEN Error("token consumed")
                                        ELSE NoResult]]
    /\ net' = IF r.restores > 0 THEN net
              ELSE [net EXCEPT
                      ![c].restore =
                          Append(@, [transport |-> r.transport,
                                     path |-> getPaths(r.validatedCfg).restore,
                                     body |-> [mappingId |-> r.response.mappingId,
                                               output |-> WScalar(llmOutput),
                                               encryptResponse |-> FALSE]]),
                      ![c].order = Append(@, "POST restore")]

\* restore(llmOutput) of cycle c's capability, up to its POST (lines 427-444)
Restore(c, r, llmOutput) ==
    IF llmOutput.t # "string"
    THEN /\ cyc' = [cyc EXCEPT ![c] =
                      [r EXCEPT !.pc = IF r.kind = "wrap" THEN "done" ELSE "ready",
                                !.llmOutput = llmOutput,
                                !.restores = @ + 1,
                                !.restoreResponse = NoRestoreResponse,
                                !.restored = Error("llmOutput must be a string"),
                                !.result = IF r.kind = "wrap"
                                           THEN Error("llmOutput must be a string")
                                           ELSE @]]
         /\ UNCHANGED net
    ELSE /\ cyc' = [cyc EXCEPT ![c] =
                      [r EXCEPT !.pc = "awaitRestore", !.llmOutput = llmOutput,
                                !.restores = @ + 1, !.restored = NoResult,
                                !.restoreResponse = NoRestoreResponse]]
         /\ net' = [net EXCEPT
                      ![c].restore =
                          Append(@, [transport |-> r.transport,
                                     path |-> getPaths(r.validatedCfg).restore,
                                     body |-> RestoreRequestBody(r.response, llmOutput,
                                                                 r.validatedCfg)]),
                      ![c].order = Append(@, "POST restore")]

\* an anonymize that sends its POST once more when the transport rejected it
AnonymizeResponseRetry(c, a) ==
    /\ cyc[c].pc = "awaitAnonymize"
    /\ UNCHANGED <<keyCache, transportPool, transports, req, rsa>>
    /\ IF a.rejected /\ Len(net[c].anonymize) < 2
       THEN /\ net' = [net EXCEPT ![c].anonymize = Append(@, @[1]),
                                  ![c].order = Append(@, "POST anonymize")]
            /\ UNCHANGED cyc
       ELSE IF a.rejected \/ AnonymizeResponseInvalid(a)
       THEN /\ cyc' = [cyc EXCEPT ![c].pc = "done",
                                  ![c].result = IF a.rejected THEN Error("transport")
                                                ELSE Error("Invalid response from /anonymize")]
            /\ UNCHANGED net
       ELSE IF cyc[c].kind = "wrap"
       THEN /\ cyc' = [cyc EXCEPT ![c].pc = "awaitCaller", ![c].response = a]
            /\ net' = [net EXCEPT ![c].calls = Append(@, a.safePrompt),
                                  ![c].order = Append(@, "caller")]
       ELSE /\ cyc' = [cyc EXCEPT ![c].pc = "ready", ![c].response = a,
                                  ![c].result = Ok(a.safePrompt)]
            /\ UNCHANGED net

\* the anonymize POST of cycle c settles: lines 421-491, and for wrap line 533
AnonymizeResponse(c, a) ==
    /\ cyc[c].pc = "awaitAnonymize"
    /\ UNCHANGED <<keyCache, transportPool, transports, req, rsa>>
    /\ IF a.rejected
       THEN /\ cyc' = [cyc EXCEPT ![c].pc = "done", ![c].result = Error("transport")]
            /\ UNCHANGED net
       ELSE IF AnonymizeResponseInvalid(a)
       THEN /\ cyc' = [cyc EXCEPT ![c].pc = "done", ![c].response = a,
                                  ![c].result = Error("Invalid response from /anonymize")]
            /\ UNCHANGED net
       ELSE IF cyc[c].kind = "wrap"
       THEN /\ cyc' = [cyc EXCEPT ![c].pc = "awaitCaller", ![c].response = a]
            /\ net' = [net EXCEPT ![c].calls = Append(@, a.safePrompt),
                                  ![c].order = Append(@, "caller")]
       ELSE /\ cyc' = [cyc EXCEPT ![c].pc = "ready", ![c].response = a,
                                  ![c].result = Ok(a.safePrompt)]
            /\ UNCHANGED net

\* wrap: the caller's function settles (lines 533-536)
CallerSettles(c, o) ==
    /\ cyc[c].pc = "awaitCaller"
    /\ UNCHANGED <<keyCache, transportPool, transports, req, rsa>>
    /\ IF o.rejected
       THEN /\ cyc' = [cyc EXCEPT ![c].pc = "done", ![c].result = Error("caller")]
            /\ UNCHANGED net
       ELSE Restore(c, cyc[c], o.value)

\* the holder of an AnonymizeResult invokes its restore capability
InvokeRestore(c, llmOutput) ==
    /\ cyc[c].pc = "ready"
    /\ cyc[c].restores < MaxRestores
    /\ UNCHANGED <<keyCache, transportPool, transports, req, rsa>>
    /\ Restore(c, cyc[c], llmOutput)

\* a restore whose promise is left unsettled when the transport rejects
RestoreResponseLost(c, rr) ==
    /\ cyc[c].pc = "awaitRestore"
    /\ UNCHANGED <<net, keyCache, transportPool, transports, req, rsa>>
    /\ LET res == IF rr.rejected
                  THEN NoResult
                  ELSE LET x == RestoreResult(rr, cyc[c].validatedCfg)
                       IN  IF x.ok THEN Ok(x.val) ELSE Error(x.err)
       IN  cyc' = [cyc EXCEPT
                     ![c].pc = IF rr.rejected THEN "lost"
                               ELSE IF cyc[c].kind = "wrap" THEN "done" ELSE "ready",
                     ![c].restoreResponse = rr,
                     ![c].restored = res,
                     ![c].result = IF cyc[c].kind = "wrap" THEN res ELSE @]

\* the restore POST of cycle c settles: lines 446-484
RestoreResponse(c, rr) ==
    /\ cyc[c].pc = "awaitRestore"
    /\ UNCHANGED <<net, keyCache, transportPool, transports, req, rsa>>
    /\ LET res == IF rr.rejected
                  THEN Error("transport")
                  ELSE LET x == RestoreResult(rr, cyc[c].validatedCfg)
                       IN  IF x.ok THEN Ok(x.val) ELSE Error(x.err)
       IN  cyc' = [cyc EXCEPT
                     ![c].pc = IF cyc[c].kind = "wrap" THEN "done" ELSE "ready",
                     ![c].restoreResponse = rr,
                     ![c].restored = res,
                     ![c].result = IF cyc[c].kind = "wrap" THEN res ELSE @]

\* a caller takes the transport of cfg's origin: getTransport as guard.ts (or a
\* test) calls it with the base URL then in force
CallGetTransport(c, cfg) ==
    /\ CanStart(c)
    /\ LET g == getTransport(cfg, transportPool, transports)
       IN  /\ transportPool' = g.pool
           /\ transports' = g.transports
           /\ cyc' = [cyc EXCEPT ![c] =
                        [Started(c, "getTransport", JUndef, FALSE, cfg) EXCEPT
                            !.pc = "done", !.validatedCfg = cfg, !.transport = g.id,
                            !.result = Ok(JUndef)]]
    /\ UNCHANGED <<net, keyCache, req, rsa>>

\* a reset that forgets the transports without closing them
ResetTransportPoolNoClose ==
    /\ transportPool' = [o \in Origins |-> 0]
    /\ UNCHANGED <<cyc, net, keyCache, transports, req, rsa>>

\* __resetTransportPool: close every pooled transport, clear the pool
ResetTransportPool ==
    /\ transports' = [i \in 1..Len(transports) |->
                         IF \E o \in Origins : transportPool[o] = i
                         THEN [transports[i] EXCEPT !.closed = TRUE]
                         ELSE transports[i]]
    /\ transportPool' = [o \in Origins |-> 0]
    /\ UNCHANGED <<cyc, net, keyCache, req, rsa>>

(***************************************************************************)
(* Spec: NumCycles calls in flight at once, over a small choice of inputs  *)
(* and answers.  SpecOne: one call in a fresh process, over the full       *)
(* choice.                                                                 *)
(***************************************************************************)
SomeConfigs ==
    {GuardConfig(JStr(<<"A">>), KUndef), GuardConfig(JStr(<<"A">>), Pem("PRIVATE KEY", 1)),
     GuardConfig(JStr(<<" ">>), KUndef)}

SomeDiscoveryResponses ==
    {d \in DiscoveryResponses :
        \/ d.rejected
        \/ d.publicKey = Pem("PUBLIC KEY", 1) /\ d.keyId = JStr(<<"k1">>)}

SomeAnonymizeResponses ==
    {a \in AnonymizeResponses :
        \/ a.rejected
        \/ a.safePrompt = JStr(<<"safe1">>)}

SomeCallerOutcomes == {o \in CallerOutcomes : o.rejected \/ o.value = JStr(<<"out1">>)}

SomeRestoreResponses ==
    {rr \in RestoreResponses :
        \/ rr.keyId = JUndef /\ ~rr.encrypted /\ rr.output = WScalar(JStr(<<"orig">>))
        \/ /\ rr.keyId = JUndef /\ rr.encrypted
           /\ rr.output = EncryptableField(JB64(Cipher(<<"orig">>, 1, 1)), JStr(<<"k1">>))}

Next ==
    \E c \in Cycles :
        \/ \E cfg \in SomeConfigs : CallAnonymize(c, JStr(<<"pii">>), cfg, NoOptions, 1)
        \/ \E cfg \in SomeConfigs : CallWrap(c, JStr(<<"pii">>), TRUE, cfg, NoOptions, 1)
        \/ \E cfg \in SomeConfigs : CallCreateSession(c, cfg)
        \/ \E d \in SomeDiscoveryResponses : KeyResponse(c, d, 1)
        \/ \E a \in SomeAnonymizeResponses : AnonymizeResponse(c, a)
        \/ \E o \in SomeCallerOutcomes : CallerSettles(c, o)
        \/ InvokeRestore(c, JStr(<<"out1">>))
        \/ \E rr \in SomeRestoreResponses : RestoreResponse(c, rr)

Spec == Init /\ [][Next]_vars

OneConfigs == {cfg \in Configs : cfg.apiKey # JStr(<<"B">>)}

NextOne ==
    \/ \E p \in Prompts, cfg \in OneConfigs, s \in Seeds : CallAnonymize(1, p, cfg, NoOptions, s)
    \/ \E p \in Prompts, f \in BOOLEAN, cfg \in OneConfigs, s \in Seeds :
           CallWrap(1, p, f, cfg, NoOptions, s)
    \/ \E cfg \in OneConfigs : CallCreateSession(1, cfg)
    \/ \E d \in DiscoveryResponses, s \in Seeds : KeyResponse(1, d, s)
    \/ \E a \in AnonymizeResponses \cup NonObjectAnswers : AnonymizeResponse(1, a)
    \/ \E o \in CallerOutcomes : CallerSettles(1, o)
    \/ \E v \in {JNum, JStr(<<"out1">>), JStr(<<"safe1">>)} : InvokeRestore(1, v)
    \/ \E rr \in RestoreResponses : RestoreResponse(1, rr)

SpecOne == Init /\ [][NextOne]_vars

\* SpecOne where every transport request and the caller's processing function
\* settle: each await of the call is resumed
FairOne ==
    /\ SpecOne
    /\ WF_vars(\E d \in DiscoveryResponses, s \in Seeds : KeyResponse(1, d, s))
    /\ WF_vars(\E a \in AnonymizeResponses \cup NonObjectAnswers : AnonymizeResponse(1, a))
    /\ WF_vars(\E o \in CallerOutcomes : CallerSettles(1, o))
    /\ WF_vars(\E rr \in RestoreResponses : RestoreResponse(1, rr))

(***************************************************************************)
(* SpecKeys: the calls up to their anonymize request, over the kinds of    *)
(* answer of the discovery endpoint, for NumCycles overlapping calls that  *)
(* share two credentials.                                                  *)
(***************************************************************************)
KeyConfigs ==
    {GuardConfig(JStr(<<"A">>), Pem("PRIVATE KEY", 1)),
     GuardConfig(JStr(<<"B">>), Pem("PRIVATE KEY", 1)),
     GuardConfig(JStr(<<"A">>), KUndef)}

\* a rejected request, the three malformed answers and two answers that differ
KeyDiscoveryResponses ==
    {d \in DiscoveryResponses :
        \/ d.rejected
        \/ d.publicKey = KUndef /\ d.keyId = JStr(<<"k1">>)
        \/ d.publicKey = Pem("PUBLIC KEY", 1) /\ d.keyId \in {JUndef, JStr(<<"k1">>)}
        \/ d.publicKey = KJunk /\ d.keyId = JStr(<<"k1">>)
        \/ d.publicKey = Pem("PUBLIC KEY", 2) /\ d.keyId = JStr(<<"k2">>)}

NextKeys ==
    \E c \in Cycles :
        \/ \E cfg \in KeyConfigs : CallAnonymize(c, JStr(<<"pii">>), cfg, NoOptions, 1)
        \/ \E cfg \in KeyConfigs : CallWrap(c, JStr(<<"pii">>), TRUE, cfg, NoOptions, 1)
        \/ \E cfg \in KeyConfigs : CallCreateSession(c, cfg)
        \/ \E d \in KeyDiscoveryResponses : KeyResponse(c, d, 1)

SpecKeys == Init /\ [][NextKeys]_vars

(***************************************************************************)
(* SpecPool: the transport pool under calls on two origins, plain          *)
(* anonymize/restore cycles whose requests may fail, and resets at any     *)
(* moment.                                                                 *)
(***************************************************************************)
PoolConfigs ==
    {[GuardConfig(JStr(k), KUndef) EXCEPT !.baseURL = o] : k \in Credentials, o \in Origins}

PoolAnonymizeResponses ==
    {a \in AnonymizeResponses :
        \/ a.rejected
        \/ a.safePrompt = JStr(<<"safe1">>) /\ a.mappingId = JStr(<<"map1">>)}

PoolRestoreResponses ==
    {rr \in RestoreResponses :
        \/ rr.rejected
        \/ rr.keyId = JUndef /\ ~rr.encrypted /\ rr.output = WScalar(JStr(<<"orig">>))}

NextPool ==
    \/ \E c \in Cycles :
          \/ \E cfg \in PoolConfigs : CallGetTransport(c, cfg)
          \/ \E k \in Credentials :
                 CallAnonymize(c, JStr(<<"pii">>), GuardConfig(JStr(k), KUndef), NoOptions, 1)
          \/ \E a \in PoolAnonymizeResponses : AnonymizeResponse(c, a)
          \/ InvokeRestore(c, JStr(<<"out1">>))
          \/ \E rr \in PoolRestoreResponses : RestoreResponse(c, rr)
    \/ ResetTransportPool

SpecPool == Init /\ [][NextPool]_vars

(***************************************************************************)
(* SpecHeaders: one call in a fresh process whose configuration carries    *)
(* extra headers: the transport is constructed from that configuration.    *)
(***************************************************************************)
CallerHeaders ==
    {NoHeaders,
     <<Header("x-trace", JStr(<<"t1">>))>>,
     <<Header("Content-Type", JStr(<<"text/plain">>))>>,
     <<Header("x-trace", JStr(<<"t1">>)), Header("content-type", JStr(<<"text/plain">>))>>,
     <<Header("x-api-key", JStr(<<"other">>))>>}

HeaderConfigs ==
    {[GuardConfig(JStr(k), pk) EXCEPT !.headers = h] :
        k \in Credentials, pk \in {KUndef, Pem("PRIVATE KEY", 1)}, h \in CallerHeaders}

NextHeaders ==
    \/ \E cfg \in HeaderConfigs : CallAnonymize(1, JStr(<<"pii">>), cfg, NoOptions, 1)
    \/ \E d \in SomeDiscoveryResponses : KeyResponse(1, d, 1)
    \/ \E a \in PoolAnonymizeResponses : AnonymizeResponse(1, a)
    \/ InvokeRestore(1, JStr(<<"out1">>))
    \/ \E rr \in PoolRestoreResponses : RestoreResponse(1, rr)

SpecHeaders == Init /\ [][NextHeaders]_vars

(***************************************************************************)
(* SpecTtl: anonymize and wrap with a ttl, against a remote service that   *)
(* validates the ttl of a request as the test double of the endpoint does. *)
(***************************************************************************)
MaxTtl == 86400

Ttls == {TtlUndef, Ttl(-1), Ttl(0), Ttl(3600), Ttl(MaxTtl), Ttl(MaxTtl + 1)}

\* __mocks__/http.ts, line 90: the service's check of the ttl of a request
ServiceRejectsTtl(ttl) == ttl # TtlUndef /\ (ttl.n <= 0 \/ ttl.n > MaxTtl)

NextTtl ==
    \E c \in Cycles :
        \/ \E ttl \in Ttls :
               CallAnonymize(c, JStr(<<"pii">>), GuardConfig(JStr(<<"A">>), KUndef),
                             AnonymizeOptions(ttl), 1)
        \/ \E ttl \in Ttls :
               CallWrap(c, JStr(<<"pii">>), TRUE, GuardConfig(JStr(<<"A">>), KUndef),
                        AnonymizeOptions(ttl), 1)
        \/ \E a \in PoolAnonymizeResponses :
               /\ cyc[c].pc = "awaitAnonymize"
               /\ ServiceRejectsTtl(net[c].anonymize[1].body.ttl) => a.rejected
               /\ AnonymizeResponse(c, a)
        \/ CallerSettles(c, [rejected |-> FALSE, value |-> JStr(<<"out1">>)])
        \/ InvokeRestore(c, JStr(<<"out1">>))
        \/ \E rr \in PoolRestoreResponses : RestoreResponse(c, rr)

SpecTtl == Init /\ [][NextTtl]_vars

(***************************************************************************)
(* SpecSession: createSession and the operations of the session it         *)
(* returns, up to the answer to their anonymize request, for NumCycles     *)
(* sessions made at once: the discovery answers of two of them may differ. *)
(***************************************************************************)
SessionConfigs ==
    {GuardConfig(JStr(<<"A">>), KUndef), GuardConfig(JStr(<<"A">>), Pem("PRIVATE KEY", 1)),
     GuardConfig(JStr(<<" ">>), KUndef), GuardConfig(JStr(<<"A">>), KJunk)}

SessionDiscoveryResponses ==
    {d \in DiscoveryResponses :
        \/ d.rejected
        \/ d.publicKey = Pem("PUBLIC KEY", 1) /\ d.keyId = JStr(<<"k1">>)
        \/ d.publicKey = Pem("PUBLIC KEY", 2) /\ d.keyId = JStr(<<"k2">>)}

NextSession ==
    \E c \in Cycles :
        \/ \E cfg \in SessionConfigs : CallCreateSession(c, cfg)
        \/ \E d \in SessionDiscoveryResponses : KeyResponse(c, d, 1)
        \/ \E p \in {JNum, JStr(<<"pii">>)}, f \in BOOLEAN :
               SessionProtect(c, p, f, NoOptions, 1)
        \/ \E p \in {JNum, JStr(<<"pii">>)} : SessionAnonymize(c, p, NoOptions, 1)
        \/ \E a \in PoolAnonymizeResponses : AnonymizeResponse(c, a)

SpecSession == Init /\ [][NextSession]_vars

(***************************************************************************)
(* SpecHttp: one getJSON/postJSON call against a remote end that answers   *)
(* with any status and body, fails, stays silent or breaks off.            *)
(***************************************************************************)
NextHttp ==
    \/ \E method \in {"GET", "POST"}, apiKey \in Credentials :
           SendRequest(method, apiKey, <<"pii">>)
    \/ \E statusCode \in StatusCodes, body \in HttpBodies \cup RemoteEchoes(req) :
           OnResponse(statusCode, body)
    \/ OnData
    \/ OnEnd
    \/ \E err \in {"ECONNREFUSED", "socket hang up"} : OnError(err)
    \/ OnTimeout
    \/ ResponseAborted

SpecHttp == Init /\ [][NextHttp]_vars

\* the event loop runs the handler of every event that has arrived, and the
\* network delivers the rest of a response, an error or silence (the idle
\* timer) as long as the connection stands
FairHttp == SpecHttp /\ WF_vars(NextHttp)

(***************************************************************************)
(* SpecCrypto: encryptWithPublicKey and decryptWithPrivateKey over texts   *)
(* up to one byte more than the padding takes, and over keys of two pairs. *)
(***************************************************************************)
NextCrypto ==
    \/ \E p \in PlainTexts, k \in PublicKeys \cup KeyTexts, s \in PaddingSeeds :
           Encrypt(p, k, s)
    \/ \E k \in PrivateKeys \cup KeyTexts \cup {Pem("PRIVATE KEY", n) : n \in KeyPairs} :
           Decrypt(k)

SpecCrypto == Init /\ [][NextCrypto]_vars

(***************************************************************************)
(* What the claims speak of                                                *)
(***************************************************************************)
Called(c) == cyc[c].pc # "idle"

\* the anonymize call of cycle c completed successfully: its POST resolved
\* with a body that holds the safe text and the correlation token
AnonymizeSucceeded(c) ==
    /\ ~cyc[c].response.rejected
    /\ Truthy(cyc[c].response.safePrompt)
    /\ Truthy(cyc[c].response.mappingId)

\* position of the first event e in the order of cycle c's events (0: none)
FirstAt(c, e) ==
    IF \E i \in 1..Len(net[c].order) : net[c].order[i] = e
    THEN CHOOSE i \in 1..Len(net[c].order) :
             /\ net[c].order[i] = e
             /\ \A j \in 1..(i - 1) : net[c].order[j] # e
    ELSE 0

CredentialMissingOrBlank(cfg) ==
    \/ cfg.apiKey.t = "undefined"
    \/ cfg.apiKey.t = "string" /\ \A i \in 1..Len(cfg.apiKey.s) : cfg.apiKey.s[i] = " "

\* a structurally valid PEM private key: both markers of a private key around
\* a base64 body
IsPemPrivateKey(k) ==
    k.begin = "PRIVATE KEY" /\ k.end = "PRIVATE KEY" /\ k.body >= 0

\* the encrypted discriminant is true, at the top level or in the output field
SignalsEncrypted(rr) ==
    \/ rr.encrypted
    \/ rr.output.t = "object" /\ rr.output.f.encrypted

\* the key identifier the response names for its payload: the output field's,
\* or the top-level one when the field names none
NamedKeyId(rr) ==
    IF rr.output.t = "object" /\ rr.output.f.hasKeyId THEN rr.output.f.keyId
    ELSE rr.keyId

\* cycle c holds the answer to a restore request
RestoreAnswered(c) ==
    /\ cyc[c].restored.st # "none"
    /\ cyc[c].restoreResponse # NoRestoreResponse
    /\ ~cyc[c].restoreResponse.rejected

(***************************************************************************)
(* C1: whatever the interleaving of the cycles, every restore request a    *)
(* restore capability sends carries the mappingId of the anonymize         *)
(* response of the call that produced the capability.                      *)
(***************************************************************************)
C1_RestoreCarriesOwnToken ==
    \A c \in Cycles : \A i \in 1..Len(net[c].restore) :
        net[c].restore[i].body.mappingId = cyc[c].response.mappingId

\* two cycles with different tokens both have their restore request in flight
C1_Witness ==
    \E c, d \in Cycles :
        /\ cyc[c].pc = "awaitRestore" /\ cyc[d].pc = "awaitRestore"
        /\ cyc[c].kind = "anonymize" /\ cyc[d].kind = "wrap"
        /\ cyc[c].response.mappingId # cyc[d].response.mappingId

(***************************************************************************)
(* C2: a restore request is sent only after the anonymize call of its      *)
(* cycle completed successfully (its one POST came first and was answered  *)
(* with safe text and token); a call that failed holds no capability and   *)
(* sends no restore request.                                               *)
(***************************************************************************)
C2_RestoreOnlyAfterAnonymize ==
    \A c \in Cycles :
        /\ (net[c].restore # <<>> \/ cyc[c].pc \in {"ready", "awaitCaller", "awaitRestore"})
              => /\ AnonymizeSucceeded(c)
                 /\ Len(net[c].anonymize) = 1
                 /\ FirstAt(c, "POST anonymize") > 0
                 /\ net[c].restore # <<>> =>
                        FirstAt(c, "POST anonymize") < FirstAt(c, "POST restore")
        /\ (cyc[c].pc = "done" /\ ~AnonymizeSucceeded(c)) => net[c].restore = <<>>

\* a restore request is out, for a call that resolved its key, encrypted its
\* prompt and was answered
C2_Witness ==
    \E c \in Cycles :
        /\ net[c].restore # <<>>
        /\ net[c].gets # <<>>
        /\ cyc[c].kind = "anonymize"

(***************************************************************************)
(* C3: anonymize and wrap, called with a plaintext that is not text, with  *)
(* a credential that is missing, empty or blank, or (wrap) with a          *)
(* processing function that is not callable, fail with a validation error  *)
(* and send nothing: no discovery GET, no anonymize POST, no restore POST. *)
(***************************************************************************)
C3_InvalidCallSendsNothing ==
    \A c \in Cycles :
        ( /\ Called(c)
          /\ cyc[c].kind \in {"anonymize", "wrap"}
          /\ \/ cyc[c].prompt.t # "string"
             \/ CredentialMissingOrBlank(cyc[c].cfg)
             \/ cyc[c].kind = "wrap" /\ ~cyc[c].caller )
        => /\ cyc[c].pc = "done"
           /\ cyc[c].result.st = "error"
           /\ cyc[c].result.err \in {"prompt must be a string",
                                     "caller must be a function",
                                     "cfg.apiKey is required"}
           /\ net[c] = NoTraffic

\* wrap was called with a blank credential and a private key, all else valid
C3_Witness ==
    \E c \in Cycles :
        /\ cyc[c].kind = "wrap" /\ cyc[c].pc = "done"
        /\ cyc[c].prompt.t = "string" /\ cyc[c].caller
        /\ cyc[c].cfg.apiKey = JStr(<<" ">>)
        /\ IsPemPrivateKey(cyc[c].cfg.privateKey)

(***************************************************************************)
(* C4: with a private key that is no structurally valid PEM private key    *)
(* (and the call otherwise valid), anonymize, wrap and createSession fail  *)
(* with the invalid-private-key error before any network call, and the     *)
(* key cache stays as it was.                                              *)
(***************************************************************************)
C4_MalformedPrivateKeyFailsFirst ==
    \A c \in Cycles :
        ( /\ Called(c)
          /\ cyc[c].kind = "createSession" \/ cyc[c].prompt.t = "string"
          /\ cyc[c].kind = "wrap" => cyc[c].caller
          /\ ~CredentialMissingOrBlank(cyc[c].cfg) /\ cyc[c].cfg.apiKey.t = "string"
          /\ KTruthy(cyc[c].cfg.privateKey)
          /\ ~IsPemPrivateKey(cyc[c].cfg.privateKey) )
        => /\ cyc[c].pc = "done"
           /\ cyc[c].result = Error("Invalid private key format")
           /\ net[c] = NoTraffic
           /\ keyCache[cyc[c].cfg.apiKey.s] = NoEntry

\* createSession was called with a public key where the private key belongs
C4_Witness ==
    \E c \in Cycles :
        /\ cyc[c].kind = "createSession" /\ cyc[c].pc = "done"
        /\ cyc[c].cfg.apiKey = JStr(<<"A">>)
        /\ cyc[c].cfg.privateKey = Pem("PUBLIC KEY", 1)

(***************************************************************************)
(* C5: a restore response that signals encryption and names a key          *)
(* identifier other than the one resolved for the credential makes the     *)
(* restore call fail: it returns no text.                                  *)
(***************************************************************************)
C5_KeyIdMismatchFails ==
    \A c \in Cycles :
        ( /\ RestoreAnswered(c)
          /\ shouldEncryptResponse(cyc[c].validatedCfg)
          /\ SignalsEncrypted(cyc[c].restoreResponse)
          /\ NamedKeyId(cyc[c].restoreResponse) # JUndef
          /\ NamedKeyId(cyc[c].restoreResponse) # cyc[c].validatedCfg.keyId )
        => cyc[c].restored.st = "error"

(***************************************************************************)
(* C6: when the restore response signals an encrypted payload, restore     *)
(* returns the decryption of the payload under the configured private key  *)
(* or fails; it never returns the ciphertext or a stringified field.       *)
(***************************************************************************)
C6_EncryptedIsDecryptedOrFails ==
    \A c \in Cycles :
        (RestoreAnswered(c) /\ SignalsEncrypted(cyc[c].restoreResponse))
        => \/ cyc[c].restored.st = "error"
           \/ /\ cyc[c].restoreResponse.output.t = "object"
              /\ cyc[c].restoreResponse.output.f.hasKeyId
              /\ decryptWithPrivateKey(cyc[c].restoreResponse.output.f.value,
                                       cyc[c].validatedCfg.privateKey).ok
              /\ cyc[c].restored.val =
                     decryptWithPrivateKey(cyc[c].restoreResponse.output.f.value,
                                           cyc[c].validatedCfg.privateKey).val

(***************************************************************************)
(* C7: when the restore response signals an encrypted payload and the      *)
(* configuration carries no private key, restore fails and returns no      *)
(* text.                                                                   *)
(***************************************************************************)
C7_EncryptedWithoutKeyFails ==
    \A c \in Cycles :
        ( /\ RestoreAnswered(c)
          /\ SignalsEncrypted(cyc[c].restoreResponse)
          /\ ~KTruthy(cyc[c].validatedCfg.privateKey) )
        => cyc[c].restored.st = "error"

(***************************************************************************)
(* C8: with no private key configured the exchange is the one of the       *)
(* client before the overlay: no discovery request, the prompt and the     *)
(* processed text go out verbatim as plain strings, no encrypted response  *)
(* is asked for, and a plain-string response gives what the earlier        *)
(* client's restore gives.                                                 *)
(***************************************************************************)
C8_NoKeyIsPlainProtocol ==
    \A c \in Cycles :
        (Called(c) /\ ~KTruthy(cyc[c].cfg.privateKey))
        => /\ net[c].gets = <<>>
           /\ \A i \in 1..Len(net[c].anonymize) :
                  net[c].anonymize[i].body.prompt = WScalar(cyc[c].prompt)
           /\ \A i \in 1..Len(net[c].restore) :
                  /\ net[c].restore[i].body.output.t = "string"
                  /\ net[c].restore[i].body.output.f = NoField
                  /\ ~net[c].restore[i].body.encryptResponse
           /\ cyc[c].pc = "awaitRestore" =>
                  net[c].restore[Len(net[c].restore)].body.output
                      = WScalar(cyc[c].llmOutput)
           /\ (RestoreAnswered(c) /\ cyc[c].restoreResponse.output.t = "string")
                  => LET pre == RestoreResultPreOverlay(cyc[c].restoreResponse)
                     IN  cyc[c].restored =
                             IF pre.ok THEN Ok(pre.val) ELSE Error(pre.err)

\* without a private key, a restore returned the plain text of its response
C8_Witness ==
    \E c \in Cycles :
        /\ cyc[c].cfg.privateKey = KUndef
        /\ RestoreAnswered(c)
        /\ cyc[c].restoreResponse.output = WScalar(JStr(<<"orig">>))
        /\ cyc[c].restored = Ok(JStr(<<"orig">>))

(***************************************************************************)
(* C9: with a valid private key and a resolved key, the prompt of the      *)
(* anonymize request is the EncryptableField {value, encrypted: true,      *)
(* keyId} whose keyId is the key identifier resolved for the credential    *)
(* and whose value is the ciphertext of the plaintext under the resolved   *)
(* public key; the plaintext is not in the body.                           *)
(***************************************************************************)
C9_PromptIsEncryptedField ==
    \A c \in Cycles : \A i \in 1..Len(net[c].anonymize) :
        IsPemPrivateKey(cyc[c].cfg.privateKey)
        => \E seed \in Seeds :
               net[c].anonymize[i].body.prompt =
                   EncryptableField(
                       JB64(Cipher(cyc[c].prompt.s, cyc[c].validatedCfg.publicKey.body, seed)),
                       cyc[c].validatedCfg.keyId)

(***************************************************************************)
(* C10: a successful wrap did, in this order and once each: the anonymize  *)
(* POST, the call of the processing function with the safe text of the    *)
(* anonymize response, the restore POST with the text the function         *)
(* returned; it returns what restore produced.  Without the overlay the    *)
(* two POSTs are all its network calls.                                    *)
(***************************************************************************)
C10_WrapSequence ==
    \A c \in Cycles :
        (cyc[c].kind = "wrap" /\ cyc[c].pc = "done" /\ cyc[c].result.st = "ok")
        => /\ net[c].order \in {<<"POST anonymize", "caller", "POST restore">>,
                                <<"GET key", "POST anonymize", "caller", "POST restore">>}
           /\ Len(net[c].anonymize) = 1
           /\ net[c].calls = <<cyc[c].response.safePrompt>>
           /\ Len(net[c].restore) = 1
           /\ net[c].restore[1].body.output = WScalar(cyc[c].llmOutput)
           /\ cyc[c].result = cyc[c].restored
           /\ LET x == RestoreResult(cyc[c].restoreResponse, cyc[c].validatedCfg)
              IN  x.ok /\ cyc[c].result.val = x.val
           /\ ~KTruthy(cyc[c].cfg.privateKey) =>
                  /\ net[c].gets = <<>>
                  /\ Len(net[c].order) = 3

\* a wrap without overlay returned, its function having changed the safe text
C10_Witness ==
    \E c \in Cycles :
        /\ cyc[c].kind = "wrap" /\ cyc[c].pc = "done" /\ cyc[c].result.st = "ok"
        /\ cyc[c].cfg.privateKey = KUndef
        /\ cyc[c].llmOutput # cyc[c].response.safePrompt
        /\ cyc[c].result.val = JStr(<<"orig">>)

(***************************************************************************)
(* C11: in wrap a failure of a stage ends the cycle with that stage's      *)
(* error and no later stage runs.  A failed anonymize: the function is     *)
(* never called and no restore request is sent.  A failed function: no     *)
(* restore request.  A failed restore: wrap fails with restore's error.    *)
(* wrap returns a text only when restore produced it.                      *)
(***************************************************************************)
C11_WrapFailsFast ==
    \A c \in Cycles :
        (cyc[c].kind = "wrap" /\ cyc[c].pc = "done")
        => /\ ~AnonymizeSucceeded(c)
                  => /\ cyc[c].result.st = "error"
                     /\ cyc[c].result.err \in
                            {"prompt must be a string", "caller must be a function",
                             "cfg.apiKey is required", "Invalid private key format",
                             "transport", DiscoveryError([publicKey |-> KUndef, keyId |-> JUndef]),
                             DiscoveryError([publicKey |-> KJunk, keyId |-> JStr(<<"k1">>)]),
                             "Encryption failed",
                             "keyId is required and must be a non-empty string",
                             "Invalid response from /anonymize"}
                     /\ net[c].calls = <<>>
                     /\ net[c].restore = <<>>
           /\ cyc[c].result = Error("caller")
                  => /\ Len(net[c].calls) = 1
                     /\ net[c].restore = <<>>
           /\ cyc[c].restored.st # "none" => cyc[c].result = cyc[c].restored
           /\ cyc[c].result.st = "ok"
                  => /\ AnonymizeSucceeded(c)
                     /\ Len(net[c].calls) = 1
                     /\ Len(net[c].restore) = 1
                     /\ cyc[c].restored.st = "ok"
           /\ cyc[c].result.st \in {"ok", "error"}

\* a wrap whose restore request was rejected by the transport has failed with
\* that error, after its function ran
C11_Witness ==
    \E c \in Cycles :
        /\ cyc[c].kind = "wrap" /\ cyc[c].pc = "done"
        /\ Len(net[c].calls) = 1 /\ Len(net[c].restore) = 1
        /\ cyc[c].restoreResponse.rejected
        /\ cyc[c].result = Error("transport")

\* the service answered the anonymize request of cycle c as the reverting
\* service does
FaithfulAnonymize(c) ==
    /\ cyc[c].response.mappingId # JUndef
    /\ cyc[c].response.safePrompt = JStr(ServiceAnonymize(cyc[c].prompt.s))

\* the capability of cycle c was fed the safe text and the service answered by
\* reverting it
FaithfulRestore(c) ==
    /\ RestoreAnswered(c)
    /\ cyc[c].llmOutput = cyc[c].response.safePrompt
    /\ ~cyc[c].restoreResponse.encrypted
    /\ cyc[c].restoreResponse.output = WScalar(JStr(ServiceRestore(cyc[c].llmOutput.s)))

(***************************************************************************)
(* C12: with a service that reverts its own substitutions, for every text  *)
(* p, the empty text included, anonymize(p) yields a safe text and a       *)
(* restore capability, and restore(safe) returns p; wrap(p, echo) returns  *)
(* p.                                                                      *)
(***************************************************************************)
C12_RoundTrip ==
    \A c \in Cycles :
        ( /\ cyc[c].kind \in {"anonymize", "wrap"}
          /\ cyc[c].prompt.t = "string"
          /\ ~KTruthy(cyc[c].cfg.privateKey)
          /\ FaithfulAnonymize(c) )
        => /\ cyc[c].result.st # "error" \/ cyc[c].restored.st # "none"
                \/ net[c].calls # <<>>
           /\ FaithfulRestore(c) => cyc[c].restored = Ok(cyc[c].prompt)

\* the same statement for the texts that are not empty
C12_RoundTripNonEmpty ==
    \A c \in Cycles :
        ( /\ cyc[c].kind \in {"anonymize", "wrap"}
          /\ cyc[c].prompt.t = "string" /\ cyc[c].prompt.s # <<>>
          /\ ~KTruthy(cyc[c].cfg.privateKey)
          /\ FaithfulAnonymize(c) )
        => /\ cyc[c].result.st # "error" \/ cyc[c].restored.st # "none"
                \/ net[c].calls # <<>>
           /\ FaithfulRestore(c) => cyc[c].restored = Ok(cyc[c].prompt)

(***************************************************************************)
(* C13: nothing is retried.  A call sends at most one anonymize POST and   *)
(* at most one discovery GET, an invocation of a restore capability at     *)
(* most one restore POST; the step in which a call or an invocation fails  *)
(* sends nothing, and a request the transport rejected ends its call with  *)
(* the transport's error.                                                  *)
(***************************************************************************)
C13_NoRetry ==
    [][\A c \in Cycles :
          /\ Len(net'[c].gets) <= 1
          /\ Len(net'[c].anonymize) <= 1
          /\ Len(net'[c].restore) <= cyc'[c].restores
          /\ Len(net'[c].restore) <= Len(net[c].restore) + 1
          /\ (cyc'[c].result.st = "error" /\ cyc[c].result.st # "error")
                 => net'[c] = net[c]
          /\ (cyc'[c].restored.st = "error" /\ cyc[c].restored.st # "error")
                 => net'[c] = net[c]
          /\ (cyc[c].pc = "awaitRestore" /\ cyc'[c].restoreResponse.rejected)
                 => cyc'[c].restored = Error("transport")
      ]_vars

\* the discovery GET, the anonymize POST or a restore POST of a call was
\* rejected, and the call has failed having sent that one request
C13_Witness ==
    \E c \in Cycles :
        /\ cyc[c].result = Error("transport") \/ cyc[c].restored = Error("transport")
        /\ Len(net[c].gets) = 1
        /\ Len(net[c].anonymize) = 1
        /\ Len(net[c].restore) = 2
        /\ cyc[c].restoreResponse.rejected

\* cycle c is called in this step
CalledNow(c) == cyc[c].pc = "idle" /\ cyc'[c].pc # "idle"

\* the overlay is configured for the call of cycle c (after the step)
WithOverlay(c) ==
    /\ cyc'[c].cfg.apiKey.t = "string" /\ cyc'[c].cfg.apiKey.s \in Credentials
    /\ IsPemPrivateKey(cyc'[c].cfg.privateKey)

\* the errors of a failed key discovery
DiscoveryFailures ==
    {"transport", "Invalid response from /v1/transit-crypto/inbound-public-key",
     "Invalid public key format received from API"}

\* a structurally valid PEM public key
IsPemPublicKey(k) == k.begin = "PUBLIC KEY" /\ k.end = "PUBLIC KEY" /\ k.body >= 0

\* the number of discovery requests sent for credential k
DiscoveryRequests(k) ==
    LET RECURSIVE Sum(_)
        Sum(n) == IF n = 0 THEN 0
                  ELSE Sum(n - 1) + (IF cyc[n].cfg.apiKey = JStr(k)
                                     THEN Len(net[n].gets) ELSE 0)
    IN  Sum(NumCycles)

C15_FailedDiscoveryNotCached ==
    [][/\ \A k \in Credentials :
              keyCache'[k].has => /\ IsPemPublicKey(keyCache'[k].publicKey)
                                  /\ keyCache'[k].keyId \notin {JUndef, JStr(<<>>)}
       /\ \A c \in Cycles :
              /\ (cyc[c].pc = "awaitKey" /\ cyc'[c].pc = "done"
                      /\ cyc'[c].result.err \in DiscoveryFailures)
                     => /\ keyCache' = keyCache
                        /\ net'[c] = net[c]
                        /\ net'[c].anonymize = <<>>
                        /\ cyc'[c].result.st = "error"
              /\ (CalledNow(c) /\ WithOverlay(c) /\ ~keyCache[cyc'[c].cfg.apiKey.s].has)
                     => /\ cyc'[c].pc = "awaitKey"
                        /\ Len(net'[c].gets) = 1
      ]_vars

\* after a discovery that failed for a credential, the next call with it is
\* waiting for a discovery request of its own
C15_Witness ==
    \E c, d \in Cycles :
        /\ c # d /\ cyc[c].cfg = cyc[d].cfg
        /\ cyc[c].pc = "done"
        /\ cyc[c].result = Error("Invalid public key format received from API")
        /\ ~keyCache[cyc[c].cfg.apiKey.s].has
        /\ cyc[d].pc = "awaitKey" /\ Len(net[d].gets) = 1

(***************************************************************************)
(* C16: a key cache entry, once populated, is never changed, whatever the  *)
(* interleaving of the calls, concurrent first-use resolutions with        *)
(* differing discovery answers included.                                   *)
(***************************************************************************)
C16_CacheEntryImmutable ==
    [][\A k \in Credentials : keyCache[k].has => keyCache'[k] = keyCache[k]]_vars

(***************************************************************************)
(* C17: for every API key, at most one request to the key discovery        *)
(* endpoint is sent over the life of the process, whatever the number and  *)
(* overlap of the calls that use the key with a private key.               *)
(***************************************************************************)
C17_OneDiscoveryPerApiKey ==
    \A k \in Credentials : DiscoveryRequests(k) <= 1

\* the transports no reset has closed
OpenTransports == {i \in 1..Len(transports) : ~transports[i].closed}

\* the transports the registry holds
Pooled == {transportPool[o] : o \in {x \in Origins : transportPool[x] # 0}}

\* the cycles that hold a transport no reset has closed since they took it
Holders == {c \in Cycles : cyc[c].transport \in OpenTransports}

(***************************************************************************)
(* C18: the registry holds at most one transport per origin: its entry     *)
(* for an origin is an open transport of that origin, between two resets   *)
(* every getTransport for one origin returned the same instance (only the  *)
(* first made one), and calls for distinct origins returned distinct       *)
(* instances.                                                              *)
(***************************************************************************)
C18_OneTransportPerOrigin ==
    /\ \A o \in Origins :
           transportPool[o] # 0
           => /\ transportPool[o] \in OpenTransports
              /\ transports[transportPool[o]].origin = o
    /\ \A i, j \in OpenTransports :
           transports[i].origin = transports[j].origin => i = j
    /\ \A c \in Holders :
           /\ transports[cyc[c].transport].origin = Origin(cyc[c].validatedCfg.baseURL)
           /\ transportPool[Origin(cyc[c].validatedCfg.baseURL)] = cyc[c].transport
    /\ \A c, d \in Holders :
           (cyc[c].transport = cyc[d].transport)
               <=> (Origin(cyc[c].validatedCfg.baseURL) = Origin(cyc[d].validatedCfg.baseURL))

\* with no reset in between, two calls with different credentials for one
\* origin hold the same transport
C18_Witness ==
    \E c, d \in Holders :
        /\ c # d
        /\ cyc[c].transport = cyc[d].transport
        /\ cyc[c].validatedCfg.apiKey # cyc[d].validatedCfg.apiKey

\* two calls for distinct origins hold distinct transports, both pooled
C18_DistinctOrigins ==
    \E c, d \in Holders :
        /\ cyc[c].transport # cyc[d].transport
        /\ Cardinality(Pooled) = 2

(***************************************************************************)
(* C19: reset closes every transport the registry holds at that moment and *)
(* leaves the registry empty; no other step closes a transport or takes    *)
(* one out of the registry (not a request that failed, not the end of a    *)
(* call); the first getTransport for an origin after a reset makes a new   *)
(* transport.                                                              *)
(***************************************************************************)
C19_OnlyResetCloses ==
    [][/\ Len(transports') >= Len(transports)
       /\ \A i \in 1..Len(transports) :
              /\ transports[i].closed => transports'[i].closed
              /\ (~transports[i].closed /\ transports'[i].closed)
                     => /\ i \in Pooled
                        /\ \A j \in Pooled : transports'[j].closed
                        /\ \A o \in Origins : transportPool'[o] = 0
       /\ \A o \in Origins :
              /\ (transportPool[o] # 0 /\ transportPool'[o] # transportPool[o])
                     => /\ \A j \in Pooled : transports'[j].closed
                        /\ \A x \in Origins : transportPool'[x] = 0
              /\ (transportPool[o] = 0 /\ transportPool'[o] # 0)
                     => /\ transportPool'[o] = Len(transports) + 1
                        /\ Len(transports') = Len(transports) + 1
                        /\ ~transports'[transportPool'[o]].closed
      ]_vars

\* after a reset that closed the transport of an origin, a call for that
\* origin holds a new, open transport, while an earlier holder keeps the
\* closed one
C19_Witness ==
    \E c, d \in Cycles :
        /\ cyc[c].transport # 0 /\ transports[cyc[c].transport].closed
        /\ d \in Holders
        /\ Origin(cyc[c].validatedCfg.baseURL) = Origin(cyc[d].validatedCfg.baseURL)
        /\ cyc[d].transport # cyc[c].transport

\* the authorization header of the bearer scheme for a credential
Bearer(credential) == JStr(<<"Bearer", " ">> \o credential.s)

(***************************************************************************)
(* C20: every request the transport sends, GET or POST, carries a JSON     *)
(* content-type header and, when a credential is configured, the header    *)
(* authorization with the value Bearer <credential>.                       *)
(***************************************************************************)
C20_BearerAuthorization ==
    \A c \in Cycles :
        \A t \in {net[c].gets[i].transport : i \in 1..Len(net[c].gets)}
                 \cup {net[c].anonymize[i].transport : i \in 1..Len(net[c].anonymize)}
                 \cup {net[c].restore[i].transport : i \in 1..Len(net[c].restore)} :
            /\ HeaderOf(transports[t], "content-type") = JStr(<<"application/json">>)
            /\ Truthy(cyc[c].validatedCfg.apiKey)
                   => HeaderOf(transports[t], "authorization")
                          = Bearer(cyc[c].validatedCfg.apiKey)

\* the transports that carried the requests of cycle c
RequestTransports(c) ==
    {net[c].gets[i].transport : i \in 1..Len(net[c].gets)}
    \cup {net[c].anonymize[i].transport : i \in 1..Len(net[c].anonymize)}
    \cup {net[c].restore[i].transport : i \in 1..Len(net[c].restore)}

(***************************************************************************)
(* C21: the extra headers of the configuration go out with every request,  *)
(* none dropped, but the content-type header and the credential header of  *)
(* a request keep the values the transport sets: an extra header of the    *)
(* same name does not replace them.                                        *)
(***************************************************************************)
C21_ExtraHeadersDoNotOverride ==
    \A c \in Cycles :
        \A t \in RequestTransports(c) :
            /\ \A i \in 1..Len(cyc[c].cfg.headers) :
                   LowerCase(cyc[c].cfg.headers[i].name) \notin {"content-type", "x-api-key"}
                   => HeaderOf(transports[t], LowerCase(cyc[c].cfg.headers[i].name))
                          = cyc[c].cfg.headers[i].value
            /\ HeaderOf(transports[t], "content-type") = JStr(<<"application/json">>)
            /\ HeaderOf(transports[t], "x-api-key") = cyc[c].cfg.apiKey

\* the part of C21 that holds: no extra header of another name is dropped
C21_ExtraHeadersMerged ==
    \A c \in Cycles :
        \A t \in RequestTransports(c) :
            \A i \in 1..Len(cyc[c].cfg.headers) :
                LowerCase(cyc[c].cfg.headers[i].name) \notin {"content-type", "x-api-key"}
                => HeaderOf(transports[t], LowerCase(cyc[c].cfg.headers[i].name))
                       = cyc[c].cfg.headers[i].value

(***************************************************************************)
(* C22: whatever the order of operations with different configurations on  *)
(* one origin, every request sent for an operation carries the credential  *)
(* and the extra headers of the configuration passed to that operation,    *)
(* not those of the configuration the pooled transport was made from; the  *)
(* key material cached under a credential was fetched with it.             *)
(***************************************************************************)
C22_RequestsCarryOwnCredential ==
    /\ \A c \in Cycles :
           \A t \in RequestTransports(c) :
               /\ HeaderOf(transports[t], "x-api-key") = cyc[c].cfg.apiKey
               /\ \A i \in 1..Len(cyc[c].cfg.headers) :
                      HeaderOf(transports[t], LowerCase(cyc[c].cfg.headers[i].name))
                          = cyc[c].cfg.headers[i].value
    /\ \A k \in Credentials :
           keyCache[k].has
           => \E c \in Cycles :
                  /\ cyc[c].cfg.apiKey = JStr(k)
                  /\ \E i \in 1..Len(net[c].gets) :
                         HeaderOf(transports[net[c].gets[i].transport], "x-api-key") = JStr(k)

(***************************************************************************)
(* C23: for getJSON and postJSON, a response with a status in [200,400)    *)
(* resolves the call with the body parsed as JSON, or with the body text   *)
(* when the body is no JSON; a response with a status >= 400 rejects the   *)
(* call with an error that carries the status code, and its body is not    *)
(* returned as a result.                                                   *)
(***************************************************************************)
C23_StatusDecidesOutcome ==
    (req.phase = "ended")
    => /\ req.toCome = <<>>
       /\ (req.statusCode >= 200 /\ req.statusCode < 400)
              => /\ req.promise = "resolved"
                 /\ \A d \in JsonDocuments : d.text = req.chunks => req.value = d.value
                 /\ (\A d \in JsonDocuments : d.text # req.chunks)
                        => req.value = RawText(req.chunks)
       /\ req.statusCode >= 400
              => /\ req.promise = "rejected"
                 /\ req.value = NoValue
                 /\ SubSeq(req.error, 1, 3) = <<"HTTP error ", ToString(req.statusCode), ": ">>

\* a redirect whose body is no JSON resolves with the text of the body
C23_Witness ==
    /\ req.phase = "ended"
    /\ req.statusCode = 302
    /\ req.chunks = <<"<html>", "stack">>
    /\ req.value = RawText(<<"<html>", "stack">>)

\* a not-found answer with a JSON body rejects with status and message
C23_WitnessRejected ==
    /\ req.phase = "ended"
    /\ req.statusCode = 404
    /\ req.error = <<"HTTP error ", "404", ": ", "quota">>

(***************************************************************************)
(* C29: every postJSON or getJSON call settles in the end: it resolves     *)
(* with a response or rejects with an error (the timeout error when the    *)
(* wait runs out, the request then being destroyed; a connection error     *)
(* otherwise); it settles at most once, and a response that comes after    *)
(* the timeout gives no result.                                            *)
(***************************************************************************)
C29_EveryRequestSettles ==
    (req.promise = "pending") ~> (req.promise \in {"resolved", "rejected"})

\* the part of C29 that holds: a settled call stays as it settled, and after
\* a timeout no response is taken
C29_SettlesOnce ==
    [][/\ req.promise \in {"resolved", "rejected"}
          => /\ req'.promise = req.promise
             /\ req'.value = req.value
             /\ req'.error = req.error
       /\ req.phase = "destroyed" => req'.chunks = req.chunks /\ req'.statusCode = req.statusCode
       /\ req'.settled <= 1
      ]_vars

\* the state C29 fails in: the connection is gone, the call is pending and
\* no handler is left to run
C29_Hangs ==
    /\ req.phase = "closed"
    /\ req.promise = "pending"
    /\ ~ENABLED NextHttp

\* the public and the private key are the two halves of one key pair
IsKeyPair(publicKeyPem, privateKeyPem) ==
    /\ validatePublicKey(publicKeyPem) /\ validatePrivateKey(privateKeyPem)
    /\ publicKeyPem.body \in KeyPairs
    /\ privateKeyPem.body = publicKeyPem.body

(***************************************************************************)
(* C25: round trip: for every text p, the empty text and texts of any      *)
(* length included, and every valid key pair (pub, priv), the encryption   *)
(* of p with pub succeeds and its decryption with priv returns p.          *)
(***************************************************************************)
C25_RoundTrip ==
    /\ (/\ rsa.stage # "idle"
        /\ rsa.plainText.t = "string"
        /\ \E k \in KeyPairs : rsa.publicKey = Pem("PUBLIC KEY", k))
       => rsa.encrypted.ok
    /\ (/\ rsa.stage = "decrypted"
        /\ IsKeyPair(rsa.publicKey, rsa.privateKey))
       => /\ rsa.decrypted.ok
          /\ rsa.decrypted.val = rsa.plainText

\* the round trip that holds: texts of at most MaxOaepBytes bytes, the empty
\* text included
C25_RoundTripWithinLimit ==
    /\ (/\ rsa.stage # "idle"
        /\ rsa.plainText.t = "string"
        /\ Len(rsa.plainText.s) <= MaxOaepBytes
        /\ \E k \in KeyPairs : rsa.publicKey = Pem("PUBLIC KEY", k))
       => rsa.encrypted.ok
    /\ (/\ rsa.stage = "decrypted"
        /\ IsKeyPair(rsa.publicKey, rsa.privateKey))
       => /\ rsa.decrypted.ok
          /\ rsa.decrypted.val = rsa.plainText

\* the empty text and the longest text have made the round trip
C25_WithinLimitReached ==
    /\ rsa.stage = "decrypted"
    /\ IsKeyPair(rsa.publicKey, rsa.privateKey)
    /\ rsa.plainText = JStr(<<>>)
    /\ rsa.decrypted.val = JStr(<<>>)

(***************************************************************************)
(* C26: cross-key failure: for every text p and two unrelated key pairs A  *)
(* and B, the decryption with B's private key of p encrypted with A's      *)
(* public key fails with a decryption error; it returns no text, neither   *)
(* p nor anything else.                                                    *)
(***************************************************************************)
C26_CrossKeyFails ==
    (/\ rsa.stage = "decrypted"
     /\ validatePrivateKey(rsa.privateKey)
     /\ rsa.privateKey.body \in KeyPairs
     /\ rsa.privateKey.body # rsa.publicKey.body)
    => /\ ~rsa.decrypted.ok
       /\ rsa.decrypted.err = "Decryption failed"
       /\ rsa.decrypted.val = JUndef

\* a text encrypted for pair 1 was handed to the private key of pair 2
C26_Witness ==
    /\ rsa.stage = "decrypted"
    /\ rsa.encrypted.ok
    /\ rsa.plainText = JStr(<<"pii">>)
    /\ rsa.publicKey = Pem("PUBLIC KEY", 1)
    /\ rsa.privateKey = Pem("PRIVATE KEY", 2)
    /\ ~rsa.decrypted.ok

\* the call of cycle c was given a ttl outside (0, MaxTtl]
TtlOutOfRange(c) ==
    /\ cyc[c].options.ttl # TtlUndef
    /\ cyc[c].options.ttl.n <= 0 \/ cyc[c].options.ttl.n > MaxTtl

(***************************************************************************)
(* C24: anonymize with ttl 0 and with ttl 86401 is rejected, by the client *)
(* before sending or by the validation error of the remote service handed  *)
(* on to the caller, and yields no restore capability; with ttl 3600 it    *)
(* succeeds.  The same choice, local or remote, is made for every ttl      *)
(* outside (0, 86400]: here the remote one, every ttl is sent as given.    *)
(***************************************************************************)
C24_TtlOutOfRangeRejected ==
    \A c \in Cycles :
        /\ cyc[c].kind \in {"anonymize", "wrap"}
               => /\ Len(net[c].anonymize) = 1
                  /\ net[c].anonymize[1].body.ttl = cyc[c].options.ttl
        /\ TtlOutOfRange(c)
               => /\ cyc[c].pc \in {"awaitAnonymize", "done"}
                  /\ cyc[c].pc = "done" => cyc[c].result = Error("transport")
                  /\ cyc[c].response = NoResponse
                  /\ net[c].calls = <<>>
                  /\ net[c].restore = <<>>

\* ttl 0 and ttl 86401 were rejected, ttl 3600 gave a restore capability
C24_Witness ==
    \E c, d \in Cycles :
        /\ cyc[c].options.ttl \in {Ttl(0), Ttl(MaxTtl + 1)}
        /\ cyc[c].pc = "done" /\ cyc[c].result.st = "error"
        /\ cyc[d].options.ttl = Ttl(3600)
        /\ cyc[d].kind = "anonymize" /\ cyc[d].pc = "ready" /\ cyc[d].result.st = "ok"

(***************************************************************************)
(* C27: createSession validates the configuration once, when it is called, *)
(* key resolution included; the protect and anonymize operations of the    *)
(* session do not validate or resolve keys again: they work with the       *)
(* configuration as createSession validated it.                            *)
(***************************************************************************)
C27_SessionValidatesOnce ==
    \A c \in Cycles :
        (cyc[c].session /\ Len(net[c].anonymize) > 0)
        => /\ cyc[c].validatedCfg = cyc[c].cfg
           /\ cyc[c].cfg.privateKey # KUndef
                  => net[c].anonymize[1].body.prompt.f.keyId = cyc[c].cfg.keyId

\* an operation of a session with a private key has sent its request
C27_SessionOperationSent ==
    \E c \in Cycles :
        /\ cyc[c].session /\ Len(net[c].anonymize) > 0
        /\ cyc[c].cfg.privateKey # KUndef

\* two outcomes of a call's first part are the same for what follows
SameOutcome(a, b) ==
    /\ a.st = b.st /\ a.err = b.err /\ a.stage = b.stage /\ a.field = b.field
    /\ a.st # "error" => a.v = b.v

(***************************************************************************)
(* C28: createSession adds no protocol behaviour: for a valid config,      *)
(* session.protect(p, f, o) sends the requests and gives the result or     *)
(* error of wrap(p, f, config, o), and session.anonymize(p, o) those of    *)
(* anonymize(p, config, o); an invalid config makes createSession itself   *)
(* fail, so that no protect or anonymize can be called.                    *)
(***************************************************************************)
C28_SessionIsConvenienceOnly ==
    \A c \in Cycles :
        /\ HasSession(c)
               => \A p \in Prompts, f \in BOOLEAN, s \in Seeds :
                      /\ SameOutcome(Enter("wrap", p, f, SessionConfig(cyc[c]), keyCache, s),
                                     Enter("wrap", p, f, cyc[c].cfg, keyCache, s))
                      /\ SameOutcome(Enter("anonymize", p, f, SessionConfig(cyc[c]), keyCache, s),
                                     Enter("anonymize", p, f, cyc[c].cfg, keyCache, s))
        /\ (cyc[c].kind = "createSession" /\ cyc[c].pc = "done"
            /\ validateConfig(cyc[c].cfg, [k \in Credentials |-> NoEntry]).st = "error")
               => cyc[c].result.st = "error"
        /\ cyc[c].session
               => validateConfig(cyc[c].sessionCfg, [k \in Credentials |-> NoEntry]).st # "error"

\* a session with a private key stands while the cache entry of its
\* credential holds the key of a later answer
C28_Witness ==
    \E c \in Cycles :
        /\ HasSession(c)
        /\ cyc[c].cfg.privateKey # KUndef
        /\ keyCache[cyc[c].cfg.apiKey.s].keyId # cyc[c].validatedCfg.keyId

\* the secret values a request carries: its credential and its body
SecretsSent(q) ==
    {q.apiKey[i] : i \in 1..Len(q.apiKey)} \cup {q.body[i] : i \in 1..Len(q.body)}

(***************************************************************************)
(* C30: no error raised by anonymize, restore, wrap, createSession or the  *)
(* transport holds the credential, the private key, the prompt, the        *)
(* processed text or a decrypted value: two runs that differ in these      *)
(* values only surface the same error messages.  Here for the transport,   *)
(* whose errors the other operations hand on as they are.                  *)
(***************************************************************************)
C30_ErrorsHoldNoSecret ==
    (req.promise = "rejected")
    => \A i \in 1..Len(req.error) : req.error[i] \notin SecretsSent(req)

\* the part of C30 that holds: an error whose text the transport makes
\* itself, or takes from an answer that does not quote the request, holds
\* nothing of the request
C30_OwnMessagesHoldNoSecret ==
    (req.promise = "rejected" /\ req.chunks \notin RemoteEchoes(req))
    => \A i \in 1..Len(req.error) : req.error[i] \notin SecretsSent(req)

(***************************************************************************)
(* C31: when the restore response does not signal an encrypted payload,    *)
(* restore returns the text of the response's output field verbatim, for   *)
(* every text, the empty text included.                                    *)
(***************************************************************************)
C31_PlainOutputVerbatim ==
    \A c \in Cycles :
        ( /\ RestoreAnswered(c)
          /\ ~SignalsEncrypted(cyc[c].restoreResponse)
          /\ cyc[c].restoreResponse.output.t = "string" )
        => cyc[c].restored =
               Ok([t |-> "string", s |-> cyc[c].restoreResponse.output.s,
                   c |-> cyc[c].restoreResponse.output.c])

\* the part of C31 that holds: a text that is not empty is returned verbatim
C31_NonEmptyOutputVerbatim ==
    \A c \in Cycles :
        ( /\ RestoreAnswered(c)
          /\ ~SignalsEncrypted(cyc[c].restoreResponse)
          /\ cyc[c].restoreResponse.output.t = "string"
          /\ cyc[c].restoreResponse.output.s # <<>> )
        => cyc[c].restored =
               Ok([t |-> "string", s |-> cyc[c].restoreResponse.output.s,
                   c |-> cyc[c].restoreResponse.output.c])

\* the anonymize POST of cycle c resolved with a body that lacks the safe
\* text or the correlation token
AnonymizeAnswerLacksField(c) ==
    /\ net[c].anonymize # <<>>
    /\ cyc[c].pc # "awaitAnonymize"
    /\ cyc[c].result # Error("transport")
    /\ \/ cyc[c].response.safePrompt = JUndef
       \/ cyc[c].response.mappingId = JUndef

(***************************************************************************)
(* C32: an anonymize response that lacks the safe text or the correlation  *)
(* token (a body that is not a JSON object included) makes anonymize fail  *)
(* with a protocol-violation error: no result, no restore capability, no   *)
(* call of the processing function and no further request.                 *)
(***************************************************************************)
C32_MissingFieldIsProtocolViolation ==
    \A c \in Cycles :
        AnonymizeAnswerLacksField(c)
        => /\ cyc[c].pc = "done"
           /\ cyc[c].result = Error("Invalid response from /anonymize")
           /\ cyc[c].restores = 0
           /\ net[c].restore = <<>>
           /\ net[c].calls = <<>>
           /\ Len(net[c].anonymize) = 1

\* an answer with the safe text and without the token has failed the call
C32_Witness ==
    \E c \in Cycles :
        /\ AnonymizeAnswerLacksField(c)
        /\ cyc[c].response.safePrompt = JStr(<<"safe1">>)
        /\ cyc[c].response.mappingId = JUndef
        /\ cyc[c].result.st = "error"

\* an answer whose body is no JSON object has failed the call
C32_NotAnObject ==
    \E c \in Cycles :
        /\ AnonymizeAnswerLacksField(c)
        /\ cyc[c].response = AnonymizeWire(RawText(<<"<html>", "stack">>))
        /\ cyc[c].result.st = "error"

(***************************************************************************)
(* C33: the client does not defend against repeated restore.  Every        *)
(* invocation of a restore capability with a text, the second and later    *)
(* ones and those after a failed one included, sends a new restore request *)
(* with the token of the capability; the capability stays usable whatever  *)
(* the outcome, and the outcome is made from the remote response alone.    *)
(***************************************************************************)
C33_RepeatedRestoreSendsAgain ==
    [][\A c \in Cycles :
          /\ ( /\ cyc[c].pc = "ready"
               /\ cyc'[c].restores = cyc[c].restores + 1
               /\ cyc'[c].llmOutput.t = "string" )
             => /\ cyc'[c].pc = "awaitRestore"
                /\ Len(net'[c].restore) = Len(net[c].restore) + 1
                /\ net'[c].restore[Len(net'[c].restore)].body.mappingId
                       = cyc[c].response.mappingId
                /\ net'[c].restore[Len(net'[c].restore)].body.output
                       = WScalar(cyc'[c].llmOutput)
          /\ (cyc[c].pc = "awaitRestore" /\ cyc'[c].pc # "awaitRestore"
                 /\ cyc[c].kind = "anonymize")
             => /\ cyc'[c].pc = "ready"
                /\ cyc'[c].restored =
                       IF cyc'[c].restoreResponse.rejected THEN Error("transport")
                       ELSE LET x == RestoreResult(cyc'[c].restoreResponse,
                                                   cyc[c].validatedCfg)
                            IN  IF x.ok THEN Ok(x.val) ELSE Error(x.err)
      ]_vars

\* a capability whose first invocation failed has sent the request of its
\* second invocation, with its token
C33_Witness ==
    \E c \in Cycles :
        /\ cyc[c].kind = "anonymize"
        /\ cyc[c].restores = 2
        /\ cyc[c].pc = "awaitRestore"
        /\ Len(net[c].restore) = 1
        /\ net[c].restore[1].body.mappingId = cyc[c].response.mappingId

\* a capability has sent two restore requests with the same token, and the
\* second one failed
C33_TwoRequests ==
    \E c \in Cycles :
        /\ cyc[c].kind = "anonymize"
        /\ Len(net[c].restore) = 2
        /\ net[c].restore[1].body.mappingId = net[c].restore[2].body.mappingId
        /\ cyc[c].restored.st = "error"
        /\ cyc[c].pc = "ready"

\* the members of a restore request body
RestoreRequestMembers == {"mappingId", "output", "encryptResponse"}

\* the overlay was active for the anonymize call of cycle c: a public key and
\* a key identifier were resolved and the prompt went out as an
\* EncryptableField
OverlayActive(c) ==
    /\ KTruthy(cyc[c].validatedCfg.publicKey)
    /\ Truthy(cyc[c].validatedCfg.keyId)
    /\ net[c].anonymize # <<>>
    /\ net[c].anonymize[1].body.prompt.t = "object"
    /\ net[c].anonymize[1].body.prompt.f.encrypted

(***************************************************************************)
(* C34: a restore request asks for an encrypted response if and only if    *)
(* the overlay was active for the anonymize call of its capability, and no *)
(* restore request carries an alternate key identifier (partnerKeyId): its *)
(* body has the token, the output and the encryptResponse flag only.       *)
(***************************************************************************)
C34_EncryptResponseIffOverlay ==
    \A c \in Cycles : \A i \in 1..Len(net[c].restore) :
        /\ net[c].restore[i].body.encryptResponse <=> OverlayActive(c)
        /\ net[c].restore[i].body.encryptResponse
               <=> net[c].anonymize[1].body.prompt.t = "object"
        /\ DOMAIN net[c].restore[i].body = RestoreRequestMembers

\* a restore request of a cycle with the overlay asks for an encrypted response
C34_Witness ==
    \E c \in Cycles :
        /\ OverlayActive(c)
        /\ net[c].restore # <<>>
        /\ net[c].restore[1].body.encryptResponse

\* a restore request of a cycle without the overlay asks for none
C34_PlainRestore ==
    \E c \in Cycles :
        /\ ~OverlayActive(c)
        /\ net[c].restore # <<>>
        /\ ~net[c].restore[1].body.encryptResponse

(***************************************************************************)
(* C35: with the overlay active the processed text is encrypted before the *)
(* second exchange: the output of the restore request is an                *)
(* EncryptableField, as the prompt of the anonymize request is, and no     *)
(* text of the caller crosses the network in plain form.                   *)
(***************************************************************************)
C35_ProcessedTextIsEncrypted ==
    \A c \in Cycles : \A i \in 1..Len(net[c].restore) :
        OverlayActive(c)
        => /\ net[c].restore[i].body.output.t = "object"
           /\ net[c].restore[i].body.output.f.encrypted
           /\ net[c].restore[i].body.output.f.value.c # NoCipher

\* the part of C35 that holds: with the overlay active the prompt of the
\* anonymize request is a ciphertext
C35_PromptIsEncrypted ==
    \A c \in Cycles :
        (OverlayActive(c) /\ net[c].restore # <<>>)
        => net[c].anonymize[1].body.prompt.f.value.c.pt = cyc[c].prompt.s

(***************************************************************************)
(* C36: the anonymize request body holds a ttl if and only if the caller   *)
(* gave a ttl option, and then the caller's value unchanged (0 is          *)
(* forwarded, not dropped); the client injects no default.                 *)
(***************************************************************************)
C36_TtlForwardedUnchanged ==
    \A c \in Cycles : \A i \in 1..Len(net[c].anonymize) :
        /\ (net[c].anonymize[i].body.ttl # TtlUndef) <=> (cyc[c].options.ttl # TtlUndef)
        /\ net[c].anonymize[i].body.ttl = cyc[c].options.ttl

\* a request went out with the ttl 0 its caller gave
C36_Witness ==
    \E c \in Cycles :
        /\ cyc[c].options.ttl = Ttl(0)
        /\ net[c].anonymize # <<>>
        /\ net[c].anonymize[1].body.ttl = Ttl(0)

\* a request of a caller that gave no ttl went out without one
C36_NoDefault ==
    \E c \in Cycles :
        /\ cyc[c].options.ttl = TtlUndef
        /\ net[c].anonymize # <<>>
        /\ net[c].anonymize[1].body.ttl = TtlUndef

\* the cipher was not invoked: the failure is one of the checks that come
\* before it
FailedBeforeCipher(outcome) ==
    /\ ~outcome.ok
    /\ outcome.err \notin {"Encryption failed", "Decryption failed"}

(***************************************************************************)
(* C37: a key in the wrong PEM category fails validation before any        *)
(* cryptographic attempt.  No key text passes both validatePublicKey and   *)
(* validatePrivateKey; an encryption with a text that fails                *)
(* validatePublicKey and a decryption with a text that fails               *)
(* validatePrivateKey fail with the error of an invalid key format and the *)
(* cipher is not invoked.                                                  *)
(***************************************************************************)
C37_WrongCategoryFailsValidation ==
    /\ \A k \in KeyTexts \cup PublicKeys \cup PrivateKeys :
           ~(validatePublicKey(k) /\ validatePrivateKey(k))
    /\ ( /\ rsa.stage # "idle"
         /\ rsa.plainText.t = "string"
         /\ ~validatePublicKey(rsa.publicKey) )
       => /\ FailedBeforeCipher(rsa.encrypted)
          /\ KTruthy(rsa.publicKey) => rsa.encrypted.err = "Invalid public key format"
          /\ rsa.encrypted.value = JUndef
    /\ ( /\ rsa.stage = "decrypted"
         /\ ~validatePrivateKey(rsa.privateKey) )
       => /\ FailedBeforeCipher(rsa.decrypted)
          /\ KTruthy(rsa.privateKey) => rsa.decrypted.err = "Invalid private key format"
          /\ rsa.decrypted.val = JUndef

\* an encryption was called with the private key of a pair
C37_Witness ==
    /\ rsa.stage = "encrypted"
    /\ rsa.plainText = JStr(<<"pii">>)
    /\ rsa.publicKey = Pem("PRIVATE KEY", 1)
    /\ rsa.encrypted.err = "Invalid public key format"

\* a decryption was called with the public key of the pair
C37_DecryptWithPublicKey ==
    /\ rsa.stage = "decrypted"
    /\ rsa.encrypted.ok
    /\ rsa.privateKey = Pem("PUBLIC KEY", 1)
    /\ rsa.publicKey = Pem("PUBLIC KEY", 1)
    /\ rsa.decrypted.err = "Invalid private key format"

\* the call of cycle c is suspended: it has begun and has not returned
Suspended(c) == cyc[c].pc \notin {"idle", "ready", "done"}

\* what the suspended call of cycle c waits for: the transport call it made
\* last, or the processing function it called last
AwaitsExternal(c) ==
    /\ net[c].order # <<>>
    /\ net[c].order[Len(net[c].order)] =
           (CASE cyc[c].pc = "awaitKey" -> "GET key"
              [] cyc[c].pc = "awaitAnonymize" -> "POST anonymize"
              [] cyc[c].pc = "awaitCaller" -> "caller"
              [] cyc[c].pc = "awaitRestore" -> "POST restore"
              [] OTHER -> "none")

(***************************************************************************)
(* C38: when every transport request settles and the caller's processing   *)
(* function settles, every anonymize, restore, wrap and createSession call *)
(* completes in the end, with a result or an error; a call is suspended    *)
(* only on a transport call or on the processing function.                 *)
(***************************************************************************)
C38_CallsComplete ==
    /\ [](\A c \in Cycles : Suspended(c) => AwaitsExternal(c))
    /\ \A c \in Cycles :
           Suspended(c) ~> /\ cyc[c].pc \in {"ready", "done"}
                           /\ cyc[c].result.st \in {"ok", "error"}

\* a wrap has completed after each of its four awaits
C38_Witness ==
    \E c \in Cycles :
        /\ cyc[c].kind = "wrap"
        /\ cyc[c].pc = "done"
        /\ cyc[c].result.st = "ok"
        /\ net[c].order = <<"GET key", "POST anonymize", "caller", "POST restore">>

\* the transports through which this step issues a request of cycle c
IssuedThrough(c) ==
    {net'[c].gets[i].transport : i \in (Len(net[c].gets) + 1)..Len(net'[c].gets)}
    \cup {net'[c].anonymize[i].transport :
            i \in (Len(net[c].anonymize) + 1)..Len(net'[c].anonymize)}
    \cup {net'[c].restore[i].transport :
            i \in (Len(net[c].restore) + 1)..Len(net'[c].restore)}

(***************************************************************************)
(* C39: no request is ever issued through a transport that has been        *)
(* closed: after a reset of the pool, a restore capability obtained before *)
(* the reset does not send its restore request on the transport the reset  *)
(* closed.                                                                 *)
(***************************************************************************)
C39_NoRequestOnClosedTransport ==
    [][\A c \in Cycles : \A t \in IssuedThrough(c) :
          t \in 1..Len(transports) => ~transports[t].closed]_vars

\* the part of C39 that holds: the discovery and anonymize requests of a call
\* go through a transport that is open when they are issued
C39_CallsUseOpenTransport ==
    [][\A c \in Cycles :
          \A t \in IssuedThrough(c) :
              Len(net'[c].restore) = Len(net[c].restore) => ~transports'[t].closed]_vars

\* the key identifier in the encrypted prompt of cycle c's anonymize request
SentKeyId(c) == net[c].anonymize[1].body.prompt.f.keyId

(***************************************************************************)
(* C40: within one cycle with the overlay active, the key identifier in    *)
(* the encrypted prompt of the anonymize request is the key identifier     *)
(* against which the encrypted restore response is verified, for every key *)
(* identifier the discovery endpoint can return (one with leading or       *)
(* trailing whitespace included); a service that answers with the key      *)
(* identifier it was sent is never rejected as a mismatch.                 *)
(***************************************************************************)
C40_SentKeyIdIsVerifiedKeyId ==
    \A c \in Cycles :
        OverlayActive(c)
        => /\ SentKeyId(c) = cyc[c].validatedCfg.keyId
           /\ ( /\ RestoreAnswered(c)
                /\ IsEncryptedResponse(cyc[c].restoreResponse)
                /\ cyc[c].restoreResponse.output.f.keyId = SentKeyId(c) )
              => cyc[c].restored.err # "Key ID mismatch"

\* the part of C40 that holds: a key identifier without whitespace around it
C40_TrimmedKeyIdIsVerifiedKeyId ==
    \A c \in Cycles :
        (OverlayActive(c) /\ Trim(cyc[c].validatedCfg.keyId.s) = cyc[c].validatedCfg.keyId.s)
        => /\ SentKeyId(c) = cyc[c].validatedCfg.keyId
           /\ ( /\ RestoreAnswered(c)
                /\ IsEncryptedResponse(cyc[c].restoreResponse)
                /\ cyc[c].restoreResponse.output.f.keyId = SentKeyId(c) )
              => cyc[c].restored.err # "Key ID mismatch"

\* a service that answered with the key identifier it was sent was rejected
C40_EchoRejected ==
    \E c \in Cycles :
        /\ OverlayActive(c)
        /\ RestoreAnswered(c)
        /\ IsEncryptedResponse(cyc[c].restoreResponse)
        /\ cyc[c].restoreResponse.output.f.keyId = SentKeyId(c)
        /\ cyc[c].restored.err = "Key ID mismatch"

=============================================================================
